---- MODULE Spec2Model ----
(***************************************************************************)
(* The normalization and enrichment pipeline of the two data cleaners      *)
(* (loans_data_cleaner.py, scholarship_data_cleaner.py).                   *)
(*                                                                         *)
(* A text is a sequence of one-character strings.  A cell of the table is  *)
(* a tagged tuple: <<"nan">> is pandas' missing value (NaN), <<"str", t>>  *)
(* a string cell with text t, <<"num", n>> a number, <<"cat", s>> a        *)
(* category label.  A row is a function from column names to cells, a      *)
(* table is [cols: sequence of column names, rows: sequence of rows].      *)
(***************************************************************************)
EXTENDS Integers, Sequences, FiniteSets, TLC

VARIABLES
    domain,          \* which cleaner runs: "loans" or "scholarships"
    files,           \* the data folder: the files os.listdir returns, in order
    pc,              \* position of clean(): the last stage that finished
    df,              \* self.df
    original_count,  \* self.original_count
    float_cols,      \* the columns of self.df whose dtype is float, not object
    pre,             \* the table at entry to the stage that finished last
    calls,           \* the methods clean() has called so far, in call order
    written,         \* the output files this run has written, with their content
    now,             \* the clock (datetime.now()), in seconds
    run,             \* the number of the run of a cleaner over the data folder
    outputs,         \* the files the runs so far have written into the data folder
    success          \* what clean() returned in the runs that are over, in run order

vars ==
    <<domain, files, pc, df, float_cols, original_count, pre, calls, written,
      now, run, outputs, success>>

-----------------------------------------------------------------------------
(* Bounds of the model *)

MaxRows == 2

MaxClock == 1

MaxRuns == 2

MaxLen == 3

-----------------------------------------------------------------------------
(* Texts *)

WS == {" ", "\n"}

Digits == {"0", "1", "2", "3", "4", "5", "6", "7", "8", "9"}

UpperCase == <<"A","B","C","D","E","F","G","H","I","J","K","L","M",
               "N","O","P","Q","R","S","T","U","V","W","X","Y","Z">>

LowerCase == <<"a","b","c","d","e","f","g","h","i","j","k","l","m",
               "n","o","p","q","r","s","t","u","v","w","x","y","z">>

LowerChar(c) ==
    IF \E i \in 1..26 : UpperCase[i] = c
    THEN LowerCase[CHOOSE i \in 1..26 : UpperCase[i] = c]
    ELSE c

lower(t) == [i \in 1..Len(t) |-> LowerChar(t[i])]

\* word occurs in text at position i
OccursAt(t, word, i) ==
    /\ i >= 1
    /\ i + Len(word) - 1 <= Len(t)
    /\ \A k \in 1..Len(word) : t[i + k - 1] = word[k]

\* Python's `word in text`
Contains(t, word) == \E i \in 1..(Len(t) + 1) : OccursAt(t, word, i)

\* Python's text.endswith(word)
EndsWith(t, word) == OccursAt(t, word, Len(t) - Len(word) + 1)

RECURSIVE lstrip(_)
lstrip(t) == IF t # <<>> /\ Head(t) \in WS THEN lstrip(Tail(t)) ELSE t

RECURSIVE rstrip(_)
rstrip(t) ==
    IF t # <<>> /\ t[Len(t)] \in WS THEN rstrip(SubSeq(t, 1, Len(t) - 1)) ELSE t

\* Python's str.strip()
strip(t) == rstrip(lstrip(t))

\* re.sub(r'\s+', ' ', t): every run of whitespace becomes one space
RECURSIVE CollapseSpaces(_)
CollapseSpaces(t) ==
    IF t = <<>> THEN <<>>
    ELSE IF Head(t) \in WS
         THEN <<" ">> \o CollapseSpaces(lstrip(t))
         ELSE <<Head(t)>> \o CollapseSpaces(Tail(t))

\* the end of the leftmost match of <[^>]+> that starts at i, or 0
TagEnd(t, i) ==
    IF /\ i + 2 <= Len(t)
       /\ t[i] = "<"
       /\ t[i + 1] # ">"
       /\ \E j \in (i + 2)..Len(t) : t[j] = ">"
    THEN CHOOSE j \in (i + 2)..Len(t) :
            /\ t[j] = ">"
            /\ \A k \in (i + 2)..(j - 1) : t[k] # ">"
    ELSE 0

\* re.sub(r'<[^>]+>', '', t)
RECURSIVE StripTags(_)
StripTags(t) ==
    IF t = <<>> THEN <<>>
    ELSE IF TagEnd(t, 1) # 0
         THEN StripTags(SubSeq(t, TagEnd(t, 1) + 1, Len(t)))
         ELSE <<Head(t)>> \o StripTags(Tail(t))

-----------------------------------------------------------------------------
(* Cells *)

NaN == <<"nan">>

Str(t) == <<"str", t>>

Num(n) == <<"num", n>>

Cat(s) == <<"cat", s>>

IsNaN(c) == c[1] = "nan"

IsStr(c) == c[1] = "str"

TextOf(c) == c[2]

T_NA == <<"N", "/", "A">>

\* the sentinel 'N/A'
NA == Str(T_NA)

-----------------------------------------------------------------------------
(* Tables *)

EmptyTable == [cols |-> <<>>, rows |-> <<>>]

ColSet(t) == {t.cols[i] : i \in 1..Len(t.cols)}

HasCol(t, c) == c \in ColSet(t)

SeqToSet(s) == {s[i] : i \in 1..Len(s)}

\* the elements of s that are not in the set seen, in the order of s
RECURSIVE Without(_, _)
Without(s, seen) ==
    IF s = <<>> THEN <<>>
    ELSE IF Head(s) \in seen
         THEN Without(Tail(s), seen)
         ELSE <<Head(s)>> \o Without(Tail(s), seen)

\* self.df[col] = f(self.df[col]) cell by cell
MapCol(t, c, f(_)) ==
    [t EXCEPT !.rows = [i \in 1..Len(t.rows) |->
                            [t.rows[i] EXCEPT ![c] = f(t.rows[i][c])]]]

\* self.df[col] = value for a new column col
AddCol(t, c, v) ==
    [cols |-> Append(t.cols, c),
     rows |-> [i \in 1..Len(t.rows) |->
                  [k \in ColSet(t) \cup {c} |->
                      IF k = c THEN v ELSE t.rows[i][k]]]]

\* self.df[col] = values (one per row), col new or not
SetCol(t, c, values) ==
    [cols |-> IF HasCol(t, c) THEN t.cols ELSE Append(t.cols, c),
     rows |-> [i \in 1..Len(t.rows) |->
                  [k \in ColSet(t) \cup {c} |->
                      IF k = c THEN values[i] ELSE t.rows[i][k]]]]

\* self.df[list of columns]
SelectCols(t, cs) ==
    [cols |-> cs,
     rows |-> [i \in 1..Len(t.rows) |-> [k \in SeqToSet(cs) |-> t.rows[i][k]]]]

-----------------------------------------------------------------------------
(* load_data *)

T_csv == <<".", "c", "s", "v">>

T_loan == <<"l", "o", "a", "n">>

T_dai == <<"d", "a", "i">>

T_institution == <<"i", "n", "s", "t", "i", "t", "u", "t", "i", "o", "n">>

T_scholarship == <<"s", "c", "h", "o", "l", "a", "r", "s", "h", "i", "p">>

\* the filename filter of LoansDataCleaner.load_data
IsLoanFile(fname) ==
    /\ EndsWith(fname, T_csv)
    /\ \E kw \in {T_loan, T_dai, T_institution} : Contains(lower(fname), kw)
    /\ ~Contains(lower(fname), T_scholarship)

\* the filename filter of ScholarshipDataCleaner.load_data
IsScholarshipFile(fname) ==
    /\ EndsWith(fname, T_csv)
    /\ Contains(lower(fname), T_scholarship)
    /\ ~Contains(lower(fname), T_loan)

Selected(dom, fname) ==
    IF dom = "loans" THEN IsLoanFile(fname) ELSE IsScholarshipFile(fname)

\* the texts pd.read_csv reads as a missing value (its default na_values
\* that every pandas version shares)
NaValues ==
    { <<>>, T_NA, <<"N", "A">>, <<"n", "/", "a">>, <<"n", "a", "n">>,
      <<"N", "a", "N">>, <<"n", "u", "l", "l">>, <<"N", "U", "L", "L">>,
      <<"#", "N", "/", "A">>, <<"#", "N", "A">>, <<"<", "N", "A", ">">> }

ReadCell(raw) == IF raw \in NaValues THEN NaN ELSE Str(raw)

\* pd.read_csv(file) of a file that parses
read_csv(f) ==
    [cols |-> f.cols,
     rows |-> [i \in 1..Len(f.rows) |->
                  [c \in SeqToSet(f.cols) |-> ReadCell(f.rows[i][c])]]]

\* a row of one frame widened to the columns cs: absent cells are NaN
Widen(r, cs) == [c \in cs |-> IF c \in DOMAIN r THEN r[c] ELSE NaN]

\* pd.concat(dfs, ignore_index=True): rows appended in frame order, the
\* columns are the union in order of first appearance
RECURSIVE concat(_)
concat(dfs) ==
    IF dfs = <<>> THEN EmptyTable
    ELSE LET rest == concat(Tail(dfs))
             h    == Head(dfs)
             cs   == h.cols \o Without(rest.cols, ColSet(h))
             all  == SeqToSet(cs)
         IN  [cols |-> cs,
              rows |-> [i \in 1..Len(h.rows) |-> Widen(h.rows[i], all)]
                       \o [i \in 1..Len(rest.rows) |-> Widen(rest.rows[i], all)]]

\* the files the filename filter selects, in listing order
RECURSIVE MatchingFiles(_, _)
MatchingFiles(dom, fs) ==
    IF fs = <<>> THEN <<>>
    ELSE IF Selected(dom, Head(fs).fname)
         THEN <<Head(fs)>> \o MatchingFiles(dom, Tail(fs))
         ELSE MatchingFiles(dom, Tail(fs))

\* the frames of the selected files that parse (the others are logged and
\* skipped)
RECURSIVE LoadedFrames(_)
LoadedFrames(fs) ==
    IF fs = <<>> THEN <<>>
    ELSE IF Head(fs).ok
         THEN <<read_csv(Head(fs))>> \o LoadedFrames(Tail(fs))
         ELSE LoadedFrames(Tail(fs))

dfs == LoadedFrames(MatchingFiles(domain, files))

\* variant of load_data without the checks for an empty file list and an
\* empty frame list
load_data_unchecked == TRUE

\* load_data returns True
load_data_ok == dfs # <<>>

\* the columns of a loaded table that get the float dtype: read_csv and
\* concat give it to a column whose every cell is missing; any string cell
\* makes the column an object column
FloatCols(t) ==
    {c \in ColSet(t) : t.rows # <<>> /\ \A i \in 1..Len(t.rows) : IsNaN(t.rows[i][c])}

-----------------------------------------------------------------------------
(* standardize_columns *)

\* common_columns of the loans cleaner and expected_columns of the
\* scholarship cleaner (the same ten names)
common_columns ==
    <<"name", "description", "eligibility", "funding_amount", "deadline",
      "contact", "application_url", "source", "url", "scrape_date">>

bank_columns ==
    <<"bank_name", "loan_product_name", "maximum_loan_amount",
      "minimum_loan_amount", "interest_rate", "repayment_period",
      "age_criteria", "income_criteria", "documents_required",
      "special_benefits", "contact_info", "website_url", "bank_code">>

all_expected == common_columns \o bank_columns

\* for col in expected: if col not in self.df.columns: self.df[col] = 'N/A'
RECURSIVE AddMissing(_, _)
AddMissing(t, expected) ==
    IF expected = <<>> THEN t
    ELSE IF HasCol(t, Head(expected))
         THEN AddMissing(t, Tail(expected))
         ELSE AddMissing(AddCol(t, Head(expected), NA), Tail(expected))

\* self.df[to] = self.df[from]
CopyCol(t, from, to) ==
    SetCol(t, to, [i \in 1..Len(t.rows) |-> t.rows[i][from]])

\* self.df[c].isna().all()
AllNaN(t, c) == \A i \in 1..Len(t.rows) : IsNaN(t.rows[i][c])

\* the alias rule `if alias in columns and target not in columns`
AliasIfAbsent(t, alias, target) ==
    IF HasCol(t, alias) /\ ~HasCol(t, target) THEN CopyCol(t, alias, target) ELSE t

\* LoansDataCleaner.standardize_columns: the expected columns are added
\* first, the alias rules run on the table that already has them
loans_standardize_columns(t) ==
    LET t1 == AddMissing(t, all_expected)
        t2 == AliasIfAbsent(t1, "bank_name", "name")
        t3 == IF HasCol(t2, "loan_product_name") /\ AllNaN(t2, "name")
              THEN CopyCol(t2, "loan_product_name", "name")
              ELSE t2
        t4 == AliasIfAbsent(t3, "contact_info", "contact")
    IN  AliasIfAbsent(t4, "website_url", "application_url")

\* ScholarshipDataCleaner.standardize_columns: only the expected columns
\* are kept
scholarship_standardize_columns(t) ==
    SelectCols(AddMissing(t, common_columns), common_columns)

standardize_columns(dom, t) ==
    IF dom = "loans" THEN loans_standardize_columns(t)
    ELSE scholarship_standardize_columns(t)

\* the float columns after standardize_columns: an added column holds the
\* string 'N/A', a copied column takes the dtype of the column it copies
standardize_floats(dom, t, floats) ==
    IF dom = "loans"
    THEN IF AllNaN(AddMissing(t, all_expected), "name") /\ "loan_product_name" \notin floats
         THEN floats \ {"name"}
         ELSE floats
    ELSE floats \cap SeqToSet(common_columns)

-----------------------------------------------------------------------------
(* remove_duplicates *)

\* the values of a row in the columns of subset
Key(r, subset) == [c \in subset |-> r[c]]

\* DataFrame.drop_duplicates(subset=subset, keep='first') on the rows left
\* to scan, kept being the rows kept so far (missing values compare equal)
RECURSIVE DropDuplicatesFrom(_, _, _)
DropDuplicatesFrom(rows, subset, kept) ==
    IF rows = <<>> THEN kept
    ELSE IF \E k \in 1..Len(kept) : Key(kept[k], subset) = Key(Head(rows), subset)
         THEN DropDuplicatesFrom(Tail(rows), subset, kept)
         ELSE DropDuplicatesFrom(Tail(rows), subset, Append(kept, Head(rows)))

Reverse(s) == [i \in 1..Len(s) |-> s[Len(s) + 1 - i]]

\* variant of drop_duplicates with keep='last': the last row of each key
\* is kept
drop_duplicates_keep_last(rows, subset) ==
    Reverse(DropDuplicatesFrom(Reverse(rows), subset, <<>>))

\* variant of drop_duplicates that removes rows while it iterates over them:
\* the row after a removed row is kept without being examined
RECURSIVE DropDuplicatesSkipping(_, _, _)
DropDuplicatesSkipping(rows, subset, kept) ==
    IF rows = <<>> THEN kept
    ELSE IF \E k \in 1..Len(kept) : Key(kept[k], subset) = Key(Head(rows), subset)
         THEN IF Len(rows) >= 2
              THEN DropDuplicatesSkipping(Tail(Tail(rows)), subset,
                                          Append(kept, rows[2]))
              ELSE kept
         ELSE DropDuplicatesSkipping(Tail(rows), subset, Append(kept, Head(rows)))

drop_duplicates_skipping(rows, subset) == DropDuplicatesSkipping(rows, subset, <<>>)

drop_duplicates(rows, subset) == DropDuplicatesFrom(rows, subset, <<>>)

\* remove_duplicates of both cleaners: the (name, source) pass, then the
\* (name) pass.  The loans cleaner guards the first pass by the presence of
\* both columns, the scholarship cleaner runs it always.
remove_duplicates(dom, t) ==
    LET first == IF dom = "loans" => (HasCol(t, "name") /\ HasCol(t, "source"))
                 THEN drop_duplicates(t.rows, {"name", "source"})
                 ELSE t.rows
    IN  [t EXCEPT !.rows = drop_duplicates(first, {"name"})]

-----------------------------------------------------------------------------
(* clean_text_fields *)

text_columns(dom) ==
    IF dom = "loans"
    THEN <<"name", "description", "eligibility", "contact", "loan_product_name">>
    ELSE <<"name", "description", "eligibility", "contact">>

\* the strings Series.replace turns into 'N/A'
NullLike ==
    { T_NA, <<"n", "/", "a">>, <<"N", "A">>, <<"N", "o", "n", "e">>,
      <<"n", "o", "n", "e">>, <<>> }

\* one cell through strip, whitespace collapse, null-like replacement and
\* tag removal, in that order; a missing value passes through every step
CleanTextCell(c) ==
    IF ~IsStr(c) THEN c
    ELSE LET t1 == CollapseSpaces(strip(TextOf(c)))
             t2 == IF t1 \in NullLike THEN T_NA ELSE t1
         IN  Str(StripTags(t2))

RECURSIVE CleanTextCols(_, _)
CleanTextCols(t, cs) ==
    IF cs = <<>> THEN t
    ELSE IF HasCol(t, Head(cs))
         THEN CleanTextCols(MapCol(t, Head(cs), CleanTextCell), Tail(cs))
         ELSE CleanTextCols(t, Tail(cs))

\* clean_text_fields raises: the .str accessor of a float column raises
\* AttributeError
clean_text_fields_raises(dom, t, floats) ==
    \E i \in 1..Len(text_columns(dom)) :
        /\ HasCol(t, text_columns(dom)[i])
        /\ text_columns(dom)[i] \in floats

clean_text_fields(dom, t) == CleanTextCols(t, text_columns(dom))

-----------------------------------------------------------------------------
(* Pattern matching of the extractors *)

NoMatch == [ok |-> FALSE, g |-> <<>>, g2 |-> <<>>]

Match(g) == [ok |-> TRUE, g |-> g, g2 |-> <<>>]

\* the last position of the longest run of characters of S that starts at
\* p (p - 1 when t[p] is not in S)
RunEnd(t, p, S) ==
    CHOOSE j \in (p - 1)..Len(t) :
        /\ \A k \in p..j : t[k] \in S
        /\ (j = Len(t) \/ t[j + 1] \notin S)

\* some word of the set words occurs in text at position i
AnyOccursAt(t, words, i) == \E w \in words : OccursAt(t, w, i)

\* re.search: the match at the leftmost position where at(i) matches
Search(t, at(_)) ==
    IF \E i \in 1..Len(t) : at(i).ok
    THEN at(CHOOSE i \in 1..Len(t) : at(i).ok /\ \A k \in 1..(i - 1) : ~at(k).ok)
    ELSE NoMatch

\* any(word in text.lower() for word in words)
AnyWordIn(t, words) == \E w \in words : Contains(lower(t), w)

\* prefix [\.]? \s* ([\d,]+(?:\.\d{2})?) at position i, ignoring case; the
\* optional dot and the whitespace are part of the pattern when dot and
\* space say so
AmountAt(t, i, prefix, dot, space) ==
    LET p0 == i + Len(prefix)
        p1 == IF dot /\ p0 <= Len(t) /\ t[p0] = "." THEN p0 + 1 ELSE p0
        p2 == IF space THEN RunEnd(t, p1, WS) + 1 ELSE p1
        e  == RunEnd(t, p2, Digits \cup {","})
        e2 == IF /\ e + 3 <= Len(t)
                 /\ t[e + 1] = "."
                 /\ t[e + 2] \in Digits
                 /\ t[e + 3] \in Digits
              THEN e + 3 ELSE e
    IN  IF OccursAt(lower(t), prefix, i) /\ e >= p2
        THEN Match(SubSeq(t, p2, e2))
        ELSE NoMatch

\* (\d+)\s*(?:w1|w2|...) at position i; fold says whether case is ignored
CountAt(t, i, words, fold) ==
    LET e == RunEnd(t, i, Digits)
        p == RunEnd(t, e + 1, WS) + 1
    IN  IF e >= i /\ AnyOccursAt(IF fold THEN lower(t) ELSE t, words, p)
        THEN Match(SubSeq(t, i, e))
        ELSE NoMatch

\* variant of the comma removal that puts a blank for each comma
RECURSIVE CommasToBlanks(_)
CommasToBlanks(t) ==
    IF t = <<>> THEN <<>>
    ELSE IF Head(t) = "," THEN <<" ">> \o CommasToBlanks(Tail(t))
         ELSE <<Head(t)>> \o CommasToBlanks(Tail(t))

\* text.replace(',', '')
RECURSIVE RemoveCommas(_)
RemoveCommas(t) ==
    IF t = <<>> THEN <<>>
    ELSE IF Head(t) = "," THEN RemoveCommas(Tail(t))
         ELSE <<Head(t)>> \o RemoveCommas(Tail(t))

-----------------------------------------------------------------------------
(* extract_loan_amounts / extract_funding_amount *)

T_Rs == <<"R", "s", ".", " ">>

\* variant of the order of the currency patterns: the dollar form first
CurrencyMatchDollarFirst(t) ==
    LET rs(i)  == AmountAt(t, i, <<"r", "s">>, TRUE, TRUE)
        lkr(i) == AmountAt(t, i, <<"l", "k", "r">>, FALSE, TRUE)
        usd(i) == AmountAt(t, i, <<"$">>, FALSE, FALSE)
        us(i)  == AmountAt(t, i, <<"u", "s", "d">>, FALSE, TRUE)
    IN  IF Search(t, usd).ok THEN Search(t, usd)
        ELSE IF Search(t, rs).ok THEN Search(t, rs)
        ELSE IF Search(t, lkr).ok THEN Search(t, lkr)
        ELSE Search(t, us)

\* the four currency patterns in the order they are tried
CurrencyMatch(t) ==
    LET rs(i)  == AmountAt(t, i, <<"r", "s">>, TRUE, TRUE)
        lkr(i) == AmountAt(t, i, <<"l", "k", "r">>, FALSE, TRUE)
        usd(i) == AmountAt(t, i, <<"$">>, FALSE, FALSE)
        us(i)  == AmountAt(t, i, <<"u", "s", "d">>, FALSE, TRUE)
    IN  IF Search(t, rs).ok THEN Search(t, rs)
        ELSE IF Search(t, lkr).ok THEN Search(t, lkr)
        ELSE IF Search(t, usd).ok THEN Search(t, usd)
        ELSE Search(t, us)

\* the descriptive keywords of the amount extractor, per cleaner
AmountWords(dom) ==
    IF dom = "loans"
    THEN {<<"v", "a", "r", "i", "e", "s">>, <<"b", "a", "s", "e", "d">>,
          <<"u", "p", " ", "t", "o">>, <<"m", "i", "n", "i", "m", "u", "m">>,
          <<"m", "a", "x", "i", "m", "u", "m">>}
    ELSE {<<"v", "a", "r", "i", "e", "s">>, <<"b", "a", "s", "e", "d">>,
          <<"u", "p", " ", "t", "o">>, <<"m", "i", "n", "i", "m", "u", "m">>}

\* variant of extract_amount without the test for 'N/A' and a missing value:
\* str(text) of a missing value is the text nan
extract_amount_unguarded(dom, c) ==
    LET t == IF IsNaN(c) THEN <<"n", "a", "n">> ELSE TextOf(c)
        m == CurrencyMatch(t)
    IN  IF m.ok THEN Str(T_Rs \o RemoveCommas(m.g))
        ELSE IF Contains(t, <<"%">>) THEN Str(strip(t))
        ELSE IF AnyWordIn(t, AmountWords(dom)) THEN Str(strip(t))
        ELSE IF t # <<>> THEN Str(t) ELSE NA

\* extract_amount of the cleaner dom
extract_amount(dom, c) ==
    IF c = NA \/ IsNaN(c) THEN NA
    ELSE LET t == TextOf(c)
             m == CurrencyMatch(t)
         IN  IF m.ok THEN Str(T_Rs \o RemoveCommas(m.g))
             ELSE IF Contains(t, <<"%">>) THEN Str(strip(t))
             ELSE IF AnyWordIn(t, AmountWords(dom)) THEN Str(strip(t))
             ELSE IF t # <<>> THEN Str(t) ELSE NA

amount_columns(dom) ==
    IF dom = "loans"
    THEN <<"funding_amount", "maximum_loan_amount", "minimum_loan_amount">>
    ELSE <<"funding_amount">>

-----------------------------------------------------------------------------
(* extract_repayment_period *)

T_installments == <<"i", "n", "s", "t", "a", "l", "l", "m", "e", "n", "t", "s">>

YearWords == {<<"y", "e", "a", "r">>, <<"y", "r">>, <<"y", "e", "a", "r", "s">>,
              <<"y", "r", "s">>}

MonthWords == {<<"m", "o", "n", "t", "h">>, <<"m", "o", "n", "t", "h", "s">>,
               <<"m", "o">>}

InstallmentWords == {<<"i", "n", "s", "t", "a", "l", "l", "m", "e", "n", "t">>,
                     <<"i", "n", "s", "t", "a", "l", "l", "m", "e", "n", "t", "s">>,
                     <<"e", "m", "i">>}

extract_period(c) ==
    IF c = NA \/ IsNaN(c) THEN NA
    ELSE LET t == strip(TextOf(c))
             year(i)  == CountAt(t, i, YearWords, TRUE)
             month(i) == CountAt(t, i, MonthWords, TRUE)
             inst(i)  == CountAt(t, i, InstallmentWords, TRUE)
         IN  IF Search(t, year).ok
             THEN Str(Search(t, year).g \o <<" ">> \o <<"y", "e", "a", "r", "s">>)
             ELSE IF Search(t, month).ok
             THEN Str(Search(t, month).g \o <<" ">> \o <<"m", "o", "n", "t", "h", "s">>)
             ELSE IF Search(t, inst).ok
             THEN Str(Search(t, inst).g \o <<" ">> \o T_installments)
             ELSE IF t # <<>> THEN Str(t) ELSE NA

-----------------------------------------------------------------------------
(* extract_interest_rate *)

T_InterestFree == <<"I", "n", "t", "e", "r", "e", "s", "t", "-", "F", "r", "e", "e">>

FreeWords ==
    {<<"f", "r", "e", "e">>, <<"z", "e", "r", "o">>, <<"0", "%">>,
     <<"i", "n", "t", "e", "r", "e", "s", "t", "-", "f", "r", "e", "e">>}

MarketWords == {<<"c", "o", "m", "p", "e", "t", "i", "t", "i", "v", "e">>,
                <<"m", "a", "r", "k", "e", "t">>}

\* ([\d.]+)\s*% at position i
PercentAt(t, i) ==
    LET e == RunEnd(t, i, Digits \cup {"."})
        p == RunEnd(t, e + 1, WS) + 1
    IN  IF e >= i /\ OccursAt(t, <<"%">>, p) THEN Match(SubSeq(t, i, e)) ELSE NoMatch

\* variant of extract_rate that looks for the keywords before the percentage
extract_rate_keywords_first(c) ==
    IF c = NA \/ IsNaN(c) THEN NA
    ELSE LET t == strip(TextOf(c))
             percent(i) == PercentAt(t, i)
         IN  IF AnyWordIn(t, FreeWords) THEN Str(T_InterestFree)
             ELSE IF Search(t, percent).ok THEN Str(Search(t, percent).g \o <<"%">>)
             ELSE IF AnyWordIn(t, MarketWords) THEN Str(strip(t))
             ELSE IF t # <<>> THEN Str(t) ELSE NA

extract_rate(c) ==
    IF c = NA \/ IsNaN(c) THEN NA
    ELSE LET t == strip(TextOf(c))
             percent(i) == PercentAt(t, i)
         IN  IF Search(t, percent).ok THEN Str(Search(t, percent).g \o <<"%">>)
             ELSE IF AnyWordIn(t, FreeWords) THEN Str(T_InterestFree)
             ELSE IF AnyWordIn(t, MarketWords) THEN Str(strip(t))
             ELSE IF t # <<>> THEN Str(t) ELSE NA

-----------------------------------------------------------------------------
(* extract_age_range *)

AgeSeparators == {<<"t", "o">>, <<"-">>, <<"a", "n", "d">>}

AgeUnits == {<<"y", "e", "a", "r">>, <<"y", "e", "a", "r", "s">>, <<"y", "r">>,
             <<"y", "r", "s">>}

T_years == <<"y", "e", "a", "r", "s">>

\* (\d+)\s*(?:to|-|and)\s*(\d+) at position i (case matters)
RangeAt(t, i) ==
    LET e1 == RunEnd(t, i, Digits)
        p  == RunEnd(t, e1 + 1, WS) + 1
        ok(w) ==
            LET q  == RunEnd(t, p + Len(w), WS) + 1
            IN  OccursAt(t, w, p) /\ RunEnd(t, q, Digits) >= q
        w  == CHOOSE x \in AgeSeparators : ok(x)
        q  == RunEnd(t, p + Len(w), WS) + 1
    IN  IF e1 >= i /\ \E x \in AgeSeparators : ok(x)
        THEN [ok |-> TRUE, g |-> SubSeq(t, i, e1),
              g2 |-> SubSeq(t, q, RunEnd(t, q, Digits))]
        ELSE NoMatch

extract_age(c) ==
    IF c = NA \/ IsNaN(c) THEN NA
    ELSE LET t == strip(TextOf(c))
             range(i)  == RangeAt(t, i)
             single(i) == CountAt(t, i, AgeUnits, TRUE)
         IN  IF Search(t, range).ok
             THEN Str(Search(t, range).g \o <<"-">> \o Search(t, range).g2
                      \o <<" ">> \o T_years)
             ELSE IF Search(t, single).ok
             THEN Str(Search(t, single).g \o <<"+", " ">> \o T_years)
             ELSE IF t # <<>> THEN Str(t) ELSE NA

-----------------------------------------------------------------------------
(* clean_eligibility *)

\* the character budget of the eligibility text
EligibilityLimit == 500

T_ellipsis == <<".", ".", ".">>

\* the end of the match of \n\s*\n that starts at i, or 0: the whitespace
\* run after the newline is given back up to its last newline
BlankLinesEnd(t, i) ==
    LET e == RunEnd(t, i + 1, WS)
    IN  IF t[i] = "\n" /\ \E j \in (i + 1)..e : t[j] = "\n"
        THEN CHOOSE j \in (i + 1)..e :
                /\ t[j] = "\n"
                /\ \A k \in (j + 1)..e : t[k] # "\n"
        ELSE 0

\* re.sub(r'\n\s*\n', '\n', t): the leftmost match becomes one newline, and
\* the search goes on after it
RECURSIVE CollapseBlankLines(_)
CollapseBlankLines(t) ==
    LET starts == {i \in 1..Len(t) : BlankLinesEnd(t, i) # 0}
        first  == CHOOSE i \in starts : \A k \in starts : i <= k
    IN  IF starts = {} THEN t
        ELSE SubSeq(t, 1, first - 1) \o <<"\n">>
                \o CollapseBlankLines(SubSeq(t, BlankLinesEnd(t, first) + 1, Len(t)))

\* re.sub(r'\n+', '\n', t): the leftmost run of newlines becomes one newline,
\* and the search goes on after it
RECURSIVE CollapseNewlines(_)
CollapseNewlines(t) ==
    LET starts == {i \in 1..Len(t) : t[i] = "\n"}
        first  == CHOOSE i \in starts : \A k \in starts : i <= k
    IN  IF starts = {} THEN t
        ELSE SubSeq(t, 1, first)
                \o CollapseNewlines(SubSeq(t, RunEnd(t, first, {"\n"}) + 1, Len(t)))

\* text[:limit] + "..." when the text is longer than limit
Truncate(t, limit) ==
    IF Len(t) > limit THEN SubSeq(t, 1, limit) \o T_ellipsis ELSE t

clean_eligibility_text(c) ==
    IF c = NA \/ IsNaN(c) THEN NA
    ELSE LET t == Truncate(CollapseNewlines(CollapseBlankLines(strip(TextOf(c)))),
                           EligibilityLimit)
         IN  IF t # <<>> THEN Str(t) ELSE NA

-----------------------------------------------------------------------------
(* extract_deadline (scholarship cleaner) *)

MonthNames ==
    {<<"j", "a", "n", "u", "a", "r", "y">>,
     <<"f", "e", "b", "r", "u", "a", "r", "y">>,
     <<"m", "a", "r", "c", "h">>, <<"a", "p", "r", "i", "l">>,
     <<"m", "a", "y">>, <<"j", "u", "n", "e">>, <<"j", "u", "l", "y">>,
     <<"a", "u", "g", "u", "s", "t">>,
     <<"s", "e", "p", "t", "e", "m", "b", "e", "r">>,
     <<"o", "c", "t", "o", "b", "e", "r">>,
     <<"n", "o", "v", "e", "m", "b", "e", "r">>,
     <<"d", "e", "c", "e", "m", "b", "e", "r">>}

MonthAbbreviations ==
    {<<"j", "a", "n">>, <<"f", "e", "b">>, <<"m", "a", "r">>,
     <<"a", "p", "r">>, <<"m", "a", "y">>, <<"j", "u", "n">>,
     <<"j", "u", "l">>, <<"a", "u", "g">>, <<"s", "e", "p">>,
     <<"o", "c", "t">>, <<"n", "o", "v">>, <<"d", "e", "c">>}

DurationWords == {<<"w", "e", "e", "k">>, <<"m", "o", "n", "t", "h">>, <<"d", "a", "y">>,
                  <<"h", "o", "u", "r">>}

OngoingWords == {<<"o", "n", "g", "o", "i", "n", "g">>,
                 <<"r", "o", "l", "l", "i", "n", "g">>,
                 <<"c", "o", "n", "t", "i", "n", "u", "o", "u", "s">>}

T_Ongoing == <<"O", "n", "g", "o", "i", "n", "g">>

\* (\d{1,2}[-/]\d{1,2}[-/]\d{2,4}) at position i
NumericDateAt(t, i) ==
    LET e1 == RunEnd(t, i, Digits)
        e2 == RunEnd(t, e1 + 2, Digits)
        e3 == RunEnd(t, e2 + 2, Digits)
        n3 == IF e3 - (e2 + 1) > 4 THEN 4 ELSE e3 - (e2 + 1)
    IN  IF /\ e1 - i + 1 \in {1, 2}
           /\ e1 + 2 <= Len(t)
           /\ t[e1 + 1] \in {"-", "/"}
           /\ e2 - (e1 + 1) \in {1, 2}
           /\ e2 + 2 <= Len(t)
           /\ t[e2 + 1] \in {"-", "/"}
           /\ n3 >= 2
        THEN Match(SubSeq(t, i, e2 + 1 + n3))
        ELSE NoMatch

\* (\d{1,2}\s+(?:month names)\s+\d{4}) at position i, ignoring case
NamedDateAt(t, i, months) ==
    LET e1 == RunEnd(t, i, Digits)
        p  == RunEnd(t, e1 + 1, WS) + 1
        ok(w) ==
            LET s == p + Len(w)
                q == RunEnd(t, s, WS) + 1
            IN  /\ OccursAt(lower(t), w, p)
                /\ q > s
                /\ RunEnd(t, q, Digits) >= q + 3
        w  == CHOOSE x \in months : ok(x)
        q  == RunEnd(t, p + Len(w), WS) + 1
    IN  IF /\ e1 - i + 1 \in {1, 2}
           /\ p > e1 + 1
           /\ \E x \in months : ok(x)
        THEN Match(SubSeq(t, i, q + 3))
        ELSE NoMatch

extract_deadline_date(c) ==
    IF c = NA \/ IsNaN(c) THEN NA
    ELSE LET t == strip(TextOf(c))
             numeric(i) == NumericDateAt(t, i)
             named(i)   == NamedDateAt(t, i, MonthNames)
             abbr(i)    == NamedDateAt(t, i, MonthAbbreviations)
         IN  IF Search(t, numeric).ok THEN Str(Search(t, numeric).g)
             ELSE IF Search(t, named).ok THEN Str(Search(t, named).g)
             ELSE IF Search(t, abbr).ok THEN Str(Search(t, abbr).g)
             ELSE IF AnyWordIn(t, DurationWords) THEN Str(strip(t))
             ELSE IF AnyWordIn(t, OngoingWords) THEN Str(T_Ongoing)
             ELSE IF t # <<>> THEN Str(t) ELSE NA

-----------------------------------------------------------------------------
(* remove_empty_rows *)

\* variant of the mask that tests the name against the empty string
KeepRowNotEmpty(dom, r) ==
    IF dom = "loans" THEN r["name"] # Str(<<>>)
    ELSE r["name"] # Str(<<>>) /\ r["source"] # Str(<<>>)

\* the mask of remove_empty_rows: NaN != 'N/A' is True in pandas
KeepRow(dom, r) ==
    IF dom = "loans" THEN r["name"] # NA
    ELSE r["name"] # NA /\ r["source"] # NA

remove_empty_rows(dom, t) ==
    LET keep(r) == KeepRow(dom, r)
    IN  [t EXCEPT !.rows = SelectSeq(t.rows, keep)]

-----------------------------------------------------------------------------
(* add_data_quality_score *)

key_fields(dom) ==
    IF dom = "loans"
    THEN <<"name", "description", "eligibility", "funding_amount", "contact">>
    ELSE <<"name", "description", "eligibility", "funding_amount", "deadline",
           "contact">>

\* num / den rounded to the nearest integer, ties to even (Python's round)
RoundHalfEven(num, den) ==
    LET q == num \div den
        r == num % den
    IN  IF 2 * r < den THEN q
        ELSE IF 2 * r > den THEN q + 1
        ELSE IF q % 2 = 0 THEN q ELSE q + 1

\* the condition under which a key field adds to the score
FieldCounts(r, f) == f \in DOMAIN r /\ r[f] # NA /\ ~IsNaN(r[f])

\* the number of the first n key fields that count
RECURSIVE CountedFields(_, _, _)
CountedFields(r, fields, n) ==
    IF n = 0 THEN 0
    ELSE CountedFields(r, fields, n - 1) + (IF FieldCounts(r, fields[n]) THEN 1 ELSE 0)

\* calculate_quality_score: 100 / len(fields) is added per counted field
\* and the sum rounded to 2 decimals; the score is kept in hundredths
calculate_quality_score(dom, r) ==
    RoundHalfEven(100 * 100 * CountedFields(r, key_fields(dom), Len(key_fields(dom))),
                  Len(key_fields(dom)))

add_data_quality_score(dom, t) ==
    SetCol(t, "data_quality_score",
           [i \in 1..Len(t.rows) |-> Num(calculate_quality_score(dom, t.rows[i]))])

\* DataFrame.apply on a table without rows calls the row function on a
\* placeholder row; in the scholarship cleaner the row function indexes the
\* row by column name, which older pandas builds answer with an exception
\* that leaves a whole frame to assign to the new column (ValueError)
score_may_raise(dom, t) == dom = "scholarships" /\ t.rows = <<>>

-----------------------------------------------------------------------------
(* add_loan_type / add_scholarship_type *)

T_nan == <<"n", "a", "n">>

\* Python's str(value) of a cell
str(c) == IF IsNaN(c) THEN T_nan ELSE TextOf(c)

\* row.get(field, '')
Get(r, f) == IF f \in DOMAIN r THEN str(r[f]) ELSE <<>>

HasAny(t, words) == \E w \in words : Contains(t, w)

\* variant of categorize_loan that tests the bank keywords first
categorize_loan_bank_first(r) ==
    LET text == lower(Get(r, "name") \o <<" ">> \o Get(r, "description"))
    IN  IF HasAny(text, {<<"b", "a", "n", "k">>, <<"b", "o", "c">>,
                         <<"c", "o", "m", "m", "e", "r", "c", "i", "a", "l">>,
                         <<"p", "e", "o", "p", "l", "e", "s">>, <<"h", "n", "b">>,
                         <<"n", "s", "b">>, <<"p", "a", "b", "c">>})
        THEN "Bank Loan"
        ELSE IF HasAny(text, {<<"g", "o", "v", "e", "r", "n", "m", "e", "n", "t">>,
                              <<"m", "o", "h", "e">>})
        THEN "Government Loan"
        ELSE IF HasAny(text, {<<"b", "u", "d", "d", "h", "i">>, <<"n", "s", "b">>})
        THEN "NSB Loan"
        ELSE IF HasAny(text, {<<"d", "a", "i">>, <<"a", "w", "a", "r", "d", "i", "n", "g">>})
        THEN "DAI Related"
        ELSE "Other"

categorize_loan(r) ==
    LET text == lower(Get(r, "name") \o <<" ">> \o Get(r, "description"))
    IN  IF HasAny(text, {<<"g", "o", "v", "e", "r", "n", "m", "e", "n", "t">>,
                         <<"m", "o", "h", "e">>})
        THEN "Government Loan"
        ELSE IF HasAny(text, {<<"b", "a", "n", "k">>, <<"b", "o", "c">>,
                              <<"c", "o", "m", "m", "e", "r", "c", "i", "a", "l">>,
                              <<"p", "e", "o", "p", "l", "e", "s">>, <<"h", "n", "b">>,
                              <<"n", "s", "b">>, <<"p", "a", "b", "c">>})
        THEN "Bank Loan"
        ELSE IF HasAny(text, {<<"b", "u", "d", "d", "h", "i">>, <<"n", "s", "b">>})
        THEN "NSB Loan"
        ELSE IF HasAny(text, {<<"d", "a", "i">>, <<"a", "w", "a", "r", "d", "i", "n", "g">>})
        THEN "DAI Related"
        ELSE "Other"

categorize_scholarship(r) ==
    LET text == lower(str(r["name"]) \o <<" ">> \o str(r["description"]))
    IN  IF HasAny(text, {<<"m", "e", "r", "i", "t">>,
                         <<"a", "c", "a", "d", "e", "m", "i", "c">>,
                         <<"p", "e", "r", "f", "o", "r", "m", "a", "n", "c", "e">>,
                         <<"e", "x", "a", "m">>, <<"g", "p", "a">>})
        THEN "Merit-Based"
        ELSE IF HasAny(text, {<<"n", "e", "e", "d">>, <<"i", "n", "c", "o", "m", "e">>,
                              <<"p", "o", "o", "r">>,
                              <<"l", "o", "w", "-", "i", "n", "c", "o", "m", "e">>,
                              <<"f", "i", "n", "a", "n", "c", "i", "a", "l">>})
        THEN "Need-Based"
        ELSE IF HasAny(text, {<<"s", "p", "o", "r", "t">>,
                              <<"a", "t", "h", "l", "e", "t", "i", "c">>,
                              <<"t", "a", "l", "e", "n", "t">>})
        THEN "Talent-Based"
        ELSE IF HasAny(text, {<<"b", "u", "r", "s", "a", "r", "y">>, <<"g", "r", "a", "n", "t">>})
        THEN "Grant/Bursary"
        ELSE IF HasAny(text, {<<"g", "o", "v", "e", "r", "n", "m", "e", "n", "t">>,
                              <<"m", "a", "h", "a", "p", "o", "l", "a">>})
        THEN "Government"
        ELSE "General"

add_type(dom, t) ==
    IF dom = "loans"
    THEN SetCol(t, "loan_type",
                [i \in 1..Len(t.rows) |-> Cat(categorize_loan(t.rows[i]))])
    ELSE SetCol(t, "scholarship_type",
                [i \in 1..Len(t.rows) |-> Cat(categorize_scholarship(t.rows[i]))])

-----------------------------------------------------------------------------
(* add_loan_duration_category / add_eligibility_region *)

DigitSeq == <<"0", "1", "2", "3", "4", "5", "6", "7", "8", "9">>

DigitValue(d) == (CHOOSE n \in 1..10 : DigitSeq[n] = d) - 1

\* int(text) of a run of digits
RECURSIVE ToInt(_)
ToInt(t) ==
    IF t = <<>> THEN 0
    ELSE 10 * ToInt(SubSeq(t, 1, Len(t) - 1)) + DigitValue(t[Len(t)])

\* (\d+) at position i
NumberAt(t, i) ==
    IF RunEnd(t, i, Digits) >= i THEN Match(SubSeq(t, i, RunEnd(t, i, Digits)))
    ELSE NoMatch

\* categorize_duration: the text is lower-cased before it is compared with
\* 'N/A', so the comparison never holds and the sentinel falls through to
\* the number search
categorize_duration(r) ==
    LET text == lower(Get(r, "repayment_period"))
        number(i) == NumberAt(text, i)
        years == ToInt(Search(text, number).g)
    IN  IF text = T_NA THEN "Unknown"
        ELSE IF Search(text, number).ok
        THEN IF years <= 3 THEN "Short-term (<=3 years)"
             ELSE IF years <= 7 THEN "Medium-term (4-7 years)"
             ELSE "Long-term (>7 years)"
        ELSE "Unknown"

extract_region(r) ==
    LET text == lower(str(r["name"]) \o <<" ">> \o str(r["description"])
                      \o <<" ">> \o str(r["eligibility"]))
    IN  IF HasAny(text, {<<"s", "r", "i", " ", "l", "a", "n", "k", "a">>,
                         <<"s", "l", "i", "i", "t">>, <<"o", "u", "s", "l">>})
        THEN "Sri Lanka"
        ELSE IF HasAny(text, {<<"l", "o", "c", "a", "l">>,
                              <<"d", "o", "m", "e", "s", "t", "i", "c">>})
        THEN "Local"
        ELSE IF HasAny(text, {<<"f", "o", "r", "e", "i", "g", "n">>,
                              <<"o", "v", "e", "r", "s", "e", "a", "s">>,
                              <<"i", "n", "t", "e", "r", "n", "a", "t", "i", "o", "n", "a", "l">>,
                              <<"a", "b", "r", "o", "a", "d">>})
        THEN "International"
        ELSE IF HasAny(text, {<<"b", "o", "t", "h">>, <<"l", "o", "c", "a", "l", " ", "o", "r">>})
        THEN "Both"
        ELSE "Unknown"

add_category(dom, t) ==
    IF dom = "loans"
    THEN SetCol(t, "loan_duration_category",
                [i \in 1..Len(t.rows) |-> Cat(categorize_duration(t.rows[i]))])
    ELSE SetCol(t, "eligible_region",
                [i \in 1..Len(t.rows) |-> Cat(extract_region(t.rows[i]))])

-----------------------------------------------------------------------------
(* reorder_columns *)

column_order(dom) ==
    IF dom = "loans"
    THEN <<"name", "loan_type", "loan_duration_category", "description",
           "eligibility", "maximum_loan_amount", "minimum_loan_amount",
           "funding_amount", "interest_rate", "repayment_period",
           "age_criteria", "income_criteria", "contact", "application_url",
           "source", "data_quality_score", "scrape_date">>
    ELSE <<"name", "scholarship_type", "eligible_region", "description",
           "eligibility", "funding_amount", "deadline", "contact",
           "application_url", "source", "url", "data_quality_score",
           "scrape_date">>

\* the columns of order that exist in the table, in the order of order
available_cols(t, order) ==
    LET here(c) == HasCol(t, c) IN SelectSeq(order, here)

\* variant of reorder_columns that keeps the columns of column_order only
reorder_columns_known_only(dom, t) ==
    SelectCols(t, available_cols(t, column_order(dom)))

\* the loans cleaner keeps the columns of column_order that exist, the
\* scholarship cleaner takes column_order as it is (all of its columns exist
\* by this stage); both append the remaining columns in table order
reorder_columns(dom, t) ==
    LET first == IF dom = "loans" THEN available_cols(t, column_order(dom))
                 ELSE column_order(dom)
    IN  SelectCols(t, first \o Without(t.cols, SeqToSet(first)))

-----------------------------------------------------------------------------
(* generate_cleaning_report / save_cleaned_data *)

\* variant of the statistics whose rate is the share of the rows kept
report_statistics_kept_share(original, t) ==
    [original |-> original,
     cleaned  |-> Len(t.rows),
     removed  |-> original - Len(t.rows),
     rate     |-> RoundHalfEven(Len(t.rows) * 100 * 100, original)]

\* the STATISTICS block of the report; the removal rate is kept in
\* hundredths of a percent, as round(..., 2) prints it
report_statistics(original, t) ==
    [original |-> original,
     cleaned  |-> Len(t.rows),
     removed  |-> original - Len(t.rows),
     rate     |-> RoundHalfEven((original - Len(t.rows)) * 100 * 100, original)]

\* the removal rate divides by self.original_count: ZeroDivisionError
report_raises(original) == original = 0

\* the files save_cleaned_data writes: the canonical table and the
\* timestamped snapshot, both holding self.df
saved_files(t) == [k \in {"canonical", "snapshot"} |-> t]

DigitChars == <<"0", "1", "2", "3", "4", "5", "6", "7", "8", "9">>

\* str(n) of a natural number
RECURSIVE IntText(_)
IntText(n) ==
    IF n < 10 THEN <<DigitChars[n + 1]>>
    ELSE IntText(n \div 10) \o <<DigitChars[(n % 10) + 1]>>

\* datetime.now().strftime(...) to the second: one text per clock second
strftime(ts) == IntText(ts)

\* the text of the report: the Timestamp line and the STATISTICS block (the
\* other blocks are computed from the table alone)
report_text(ts, original, t) ==
    [timestamp |-> strftime(ts), statistics |-> report_statistics(original, t)]

T_txt == <<".", "t", "x", "t">>

\* data/loans_cleaning_report_<stamp>.txt, data/scholarship_cleaning_report_<stamp>.txt
report_file(dom, ts) ==
    (IF dom = "loans"
     THEN <<"l", "o", "a", "n", "s", "_", "c", "l", "e", "a", "n", "i", "n", "g", "_", "r", "e", "p", "o", "r", "t", "_">>
     ELSE <<"s", "c", "h", "o", "l", "a", "r", "s", "h", "i", "p", "_", "c", "l", "e", "a", "n", "i", "n", "g", "_", "r", "e", "p", "o", "r", "t", "_">>) \o strftime(ts) \o T_txt

\* data/loans_cleaned.csv, data/scholarships_cleaned.csv
output_file(dom) ==
    IF dom = "loans"
    THEN <<"l", "o", "a", "n", "s", "_", "c", "l", "e", "a", "n", "e", "d", ".", "c", "s", "v">>
    ELSE <<"s", "c", "h", "o", "l", "a", "r", "s", "h", "i", "p", "s", "_", "c", "l", "e", "a", "n", "e", "d", ".", "c", "s", "v">>

\* data/loans_cleaned_<stamp>.csv, data/scholarships_cleaned_<stamp>.csv
timestamped_file(dom, ts) ==
    (IF dom = "loans"
     THEN <<"l", "o", "a", "n", "s", "_", "c", "l", "e", "a", "n", "e", "d", "_">>
     ELSE <<"s", "c", "h", "o", "l", "a", "r", "s", "h", "i", "p", "s", "_", "c", "l", "e", "a", "n", "e", "d", "_">>) \o strftime(ts) \o T_csv

\* repr of a score kept in hundredths: 100.0, 16.67, 16.5
FormatScore(n) ==
    IntText(n \div 100) \o <<".">>
    \o (IF n % 100 = 0 THEN <<"0">>
        ELSE IF n % 10 = 0 THEN IntText((n % 100) \div 10)
        ELSE IF n % 100 < 10 THEN <<"0">> \o IntText(n % 100)
        ELSE IntText(n % 100))

\* the text to_csv writes for a cell: nothing for a missing value; a label
\* is written as one unit (no stage reads the label columns of a loaded file)
CellText(c) ==
    IF IsNaN(c) THEN <<>>
    ELSE IF IsStr(c) THEN TextOf(c)
    ELSE IF c[1] = "num" THEN FormatScore(c[2])
    ELSE <<c[2]>>

\* self.df.to_csv(file, index=False): the header and the records of a file
to_csv(t) ==
    [cols |-> t.cols,
     rows |-> [i \in 1..Len(t.rows) |->
                  [c \in ColSet(t) |-> CellText(t.rows[i][c])]]]

\* the data folder after file fname is written with content by run r; the
\* entry keeps the runs that have written the file, in order
Put(outs, fname, content, r) ==
    [n \in DOMAIN outs \cup {fname} |->
        IF n = fname
        THEN [content |-> content,
              writers |-> IF fname \in DOMAIN outs
                          THEN Append(outs[fname].writers, r)
                          ELSE <<r>>]
        ELSE outs[n]]

-----------------------------------------------------------------------------
(* clean() *)

\* variant of the pipeline that filters the empty rows before it removes
\* the duplicates
pipeline_filter_first(dom) ==
    IF dom = "loans"
    THEN <<"load_data", "standardize_columns", "remove_empty_rows",
           "remove_duplicates", "clean_text_fields", "extract_loan_amounts",
           "extract_repayment_period", "extract_interest_rate",
           "extract_age_range", "clean_eligibility",
           "add_data_quality_score", "add_loan_type",
           "add_loan_duration_category", "reorder_columns",
           "generate_cleaning_report", "save_cleaned_data">>
    ELSE <<"load_data", "standardize_columns", "remove_empty_rows",
           "remove_duplicates", "clean_text_fields", "extract_funding_amount",
           "extract_deadline", "clean_eligibility",
           "add_data_quality_score", "add_scholarship_type",
           "add_eligibility_region", "reorder_columns",
           "generate_cleaning_report", "save_cleaned_data">>

\* the methods clean() calls, in call order, per cleaner
pipeline(dom) ==
    IF dom = "loans"
    THEN <<"load_data", "standardize_columns", "remove_duplicates",
           "clean_text_fields", "extract_loan_amounts",
           "extract_repayment_period", "extract_interest_rate",
           "extract_age_range", "clean_eligibility", "remove_empty_rows",
           "add_data_quality_score", "add_loan_type",
           "add_loan_duration_category", "reorder_columns",
           "generate_cleaning_report", "save_cleaned_data">>
    ELSE <<"load_data", "standardize_columns", "remove_duplicates",
           "clean_text_fields", "extract_funding_amount", "extract_deadline",
           "clean_eligibility", "remove_empty_rows",
           "add_data_quality_score", "add_scholarship_type",
           "add_eligibility_region", "reorder_columns",
           "generate_cleaning_report", "save_cleaned_data">>

\* the position of method m in the pipeline of dom, 0 when it is not in it
Position(dom, m) ==
    IF \E i \in 1..Len(pipeline(dom)) : pipeline(dom)[i] = m
    THEN CHOOSE i \in 1..Len(pipeline(dom)) : pipeline(dom)[i] = m
    ELSE 0

\* control is about to call method m: the method before it returned last
\* ("start" before the first call)
At(m) ==
    /\ Position(domain, m) > 0
    /\ pc = IF Position(domain, m) = 1 THEN "start"
            ELSE pipeline(domain)[Position(domain, m) - 1]

\* method m returns normally with table t
Step(m, t) ==
    /\ pc' = m
    /\ calls' = Append(calls, m)
    /\ pre' = df
    /\ df' = t
    /\ UNCHANGED <<now, run, success>>

\* method m raises (or load_data returns False): clean() returns False
Abort(m) ==
    /\ pc' = "failed"
    /\ calls' = Append(calls, m)
    /\ UNCHANGED <<df, float_cols, original_count, pre, written, now, run, outputs,
                   success>>

\* a column of the table is rewritten cell by cell, when the table has it
ApplyIfPresent(t, c, f(_)) == IF HasCol(t, c) THEN MapCol(t, c, f) ELSE t

LoadData ==
    /\ At("load_data")
    /\ IF load_data_ok
       THEN /\ Step("load_data", concat(dfs))
            /\ original_count' = Len(concat(dfs).rows)
            /\ float_cols' = FloatCols(concat(dfs))
            /\ UNCHANGED <<written, outputs>>
       ELSE Abort("load_data")
    /\ UNCHANGED <<domain, files>>

StandardizeColumns ==
    /\ At("standardize_columns")
    /\ Step("standardize_columns", standardize_columns(domain, df))
    /\ float_cols' = standardize_floats(domain, df, float_cols)
    /\ UNCHANGED <<domain, files, original_count, written, outputs>>

RemoveDuplicates ==
    /\ At("remove_duplicates")
    /\ Step("remove_duplicates", remove_duplicates(domain, df))
    /\ UNCHANGED <<domain, files, float_cols, original_count, written, outputs>>

CleanTextFields ==
    /\ At("clean_text_fields")
    /\ IF clean_text_fields_raises(domain, df, float_cols)
       THEN Abort("clean_text_fields")
       ELSE /\ Step("clean_text_fields", clean_text_fields(domain, df))
            /\ UNCHANGED <<float_cols, original_count, written, outputs>>
    /\ UNCHANGED <<domain, files>>

\* extract_loan_amounts / extract_funding_amount
ExtractAmounts ==
    LET m == IF domain = "loans" THEN "extract_loan_amounts"
             ELSE "extract_funding_amount"
        amount(c) == extract_amount(domain, c)
        cs == amount_columns(domain)
        t1 == ApplyIfPresent(df, cs[1], amount)
        t3 == IF Len(cs) = 1 THEN t1
              ELSE ApplyIfPresent(ApplyIfPresent(t1, cs[2], amount), cs[3], amount)
    IN  /\ At(m)
        /\ Step(m, t3)
        /\ UNCHANGED <<domain, files, float_cols, original_count, written, outputs>>

\* the period is extracted from repayment_period, or from deadline into a new
\* repayment_period column when the table has no repayment_period
ExtractRepaymentPeriod ==
    /\ At("extract_repayment_period")
    /\ Step("extract_repayment_period",
            IF HasCol(df, "repayment_period")
            THEN MapCol(df, "repayment_period", extract_period)
            ELSE IF HasCol(df, "deadline")
            THEN SetCol(df, "repayment_period",
                        [i \in 1..Len(df.rows) |-> extract_period(df.rows[i]["deadline"])])
            ELSE df)
    /\ UNCHANGED <<domain, files, float_cols, original_count, written, outputs>>

ExtractInterestRate ==
    /\ At("extract_interest_rate")
    /\ Step("extract_interest_rate", ApplyIfPresent(df, "interest_rate", extract_rate))
    /\ UNCHANGED <<domain, files, float_cols, original_count, written, outputs>>

ExtractAgeRange ==
    /\ At("extract_age_range")
    /\ Step("extract_age_range", ApplyIfPresent(df, "age_criteria", extract_age))
    /\ UNCHANGED <<domain, files, float_cols, original_count, written, outputs>>

ExtractDeadline ==
    /\ At("extract_deadline")
    /\ Step("extract_deadline", MapCol(df, "deadline", extract_deadline_date))
    /\ UNCHANGED <<domain, files, float_cols, original_count, written, outputs>>

\* the loans cleaner guards the column, the scholarship cleaner has it always
CleanEligibility ==
    /\ At("clean_eligibility")
    /\ Step("clean_eligibility", ApplyIfPresent(df, "eligibility", clean_eligibility_text))
    /\ UNCHANGED <<domain, files, float_cols, original_count, written, outputs>>

RemoveEmptyRows ==
    /\ At("remove_empty_rows")
    /\ Step("remove_empty_rows", remove_empty_rows(domain, df))
    /\ UNCHANGED <<domain, files, float_cols, original_count, written, outputs>>

AddDataQualityScore ==
    /\ At("add_data_quality_score")
    /\ \/ /\ Step("add_data_quality_score", add_data_quality_score(domain, df))
          /\ UNCHANGED <<float_cols, original_count, written, outputs>>
       \/ /\ score_may_raise(domain, df)
          /\ Abort("add_data_quality_score")
    /\ UNCHANGED <<domain, files>>

\* add_loan_type / add_scholarship_type
AddType ==
    LET m == IF domain = "loans" THEN "add_loan_type" ELSE "add_scholarship_type"
    IN  /\ At(m)
        /\ Step(m, add_type(domain, df))
        /\ UNCHANGED <<domain, files, float_cols, original_count, written, outputs>>

\* add_loan_duration_category / add_eligibility_region
AddCategory ==
    LET m == IF domain = "loans" THEN "add_loan_duration_category"
             ELSE "add_eligibility_region"
    IN  /\ At(m)
        /\ Step(m, add_category(domain, df))
        /\ UNCHANGED <<domain, files, float_cols, original_count, written, outputs>>

ReorderColumns ==
    /\ At("reorder_columns")
    /\ Step("reorder_columns", reorder_columns(domain, df))
    /\ UNCHANGED <<domain, files, float_cols, original_count, written, outputs>>

GenerateCleaningReport ==
    /\ At("generate_cleaning_report")
    /\ IF report_raises(original_count)
       THEN Abort("generate_cleaning_report")
       ELSE \/ /\ Step("generate_cleaning_report", df)
               /\ written' = written
                    @@ ("report" :> report_text(now, original_count, df))
               /\ outputs' = Put(outputs, report_file(domain, now),
                                 report_text(now, original_count, df), run)
               /\ UNCHANGED <<float_cols, original_count>>
            \* print(report) or open(report_file, 'w') raises
            \/ Abort("generate_cleaning_report")
    /\ UNCHANGED <<domain, files>>

\* the last call of clean(): after it clean() returns True
SaveCleanedData ==
    /\ At("save_cleaned_data")
    /\ \/ /\ Step("save_cleaned_data", df)
          /\ written' = written @@ saved_files(df)
          /\ outputs' = Put(Put(outputs, output_file(domain), to_csv(df), run),
                            timestamped_file(domain, now), to_csv(df), run)
          /\ UNCHANGED <<float_cols, original_count>>
       \* the first to_csv raises (the file is locked, the disk is full)
       \/ Abort("save_cleaned_data")
       \* the print after the first to_csv, or the second to_csv, raises
       \/ /\ pc' = "failed"
          /\ calls' = Append(calls, "save_cleaned_data")
          /\ written' = written @@ ("canonical" :> df)
          /\ outputs' = Put(outputs, output_file(domain), to_csv(df), run)
          /\ UNCHANGED <<df, float_cols, original_count, pre, now, run, success>>
    /\ UNCHANGED <<domain, files>>

\* a second passes; the clock is read by generate_cleaning_report and
\* save_cleaned_data only, so it is advanced right before them
Tick ==
    /\ pc \in {"reorder_columns", "generate_cleaning_report"}
    /\ now < MaxClock
    /\ now' = now + 1
    /\ UNCHANGED <<domain, files, pc, df, float_cols, original_count, pre, calls,
                   written, run, outputs, success>>

Next ==
    \/ LoadData
    \/ StandardizeColumns
    \/ RemoveDuplicates
    \/ CleanTextFields
    \/ ExtractAmounts
    \/ ExtractRepaymentPeriod
    \/ ExtractInterestRate
    \/ ExtractAgeRange
    \/ ExtractDeadline
    \/ CleanEligibility
    \/ RemoveEmptyRows
    \/ AddDataQualityScore
    \/ AddType
    \/ AddCategory
    \/ ReorderColumns
    \/ GenerateCleaningReport
    \/ SaveCleanedData
    \/ Tick

-----------------------------------------------------------------------------
(* The data folder at the start of a run *)

\* file names the collectors and other tools leave in the data folder
F_loans == <<"m", "o", "h", "e", "_", "s", "t", "u", "d", "e", "n", "t", "_", "l", "o", "a", "n", "s", ".", "c", "s", "v">>

F_scholarships == <<"o", "u", "_", "s", "c", "h", "o", "l", "a", "r", "s", "h", "i", "p", "s", ".", "c", "s", "v">>

F_bank == <<"b", "a", "n", "k", "_", "e", "d", "u", "c", "a", "t", "i", "o", "n", "_", "l", "o", "a", "n", "s", ".", "c", "s", "v">>

F_daad == <<"d", "a", "a", "d", "_", "s", "c", "h", "o", "l", "a", "r", "s", "h", "i", "p", "s", ".", "c", "s", "v">>

F_notes == <<"n", "o", "t", "e", "s", ".", "c", "s", "v">>

\* a file of the data folder: ok says whether pd.read_csv parses it, cols is
\* its header, rows are its records as written (raw cell texts)
File(fname, ok, cols, rows) ==
    [fname |-> fname, ok |-> ok, cols |-> cols, rows |-> rows]

GenericCols == <<"name", "source", "description", "funding_amount">>

\* records of a generic collector file: a complete row, a row of the same
\* name from another source, a name that differs in whitespace only, a
\* whitespace-only name, a name read as missing, and cells that are empty,
\* null-like or markup only
GenericRows ==
    { [name |-> <<"A">>, source |-> <<"S">>, description |-> <<"D">>,
       funding_amount |-> <<"$", "5">>],
      [name |-> <<"A">>, source |-> <<"T">>, description |-> <<>>,
       funding_amount |-> <<>>],
      [name |-> <<"A", " ">>, source |-> <<"S">>,
       description |-> <<"<", "b", ">">>, funding_amount |-> <<"$", "5">>],
      [name |-> <<" ">>, source |-> <<"S">>,
       description |-> <<"n", "o", "n", "e">>, funding_amount |-> <<>>],
      [name |-> <<"n", "/", "a">>, source |-> <<>>,
       description |-> <<"D">>, funding_amount |-> <<"$", "5">>],
      [name |-> <<"B">>, source |-> <<"S">>, description |-> <<"D">>,
       funding_amount |-> <<"5", "%">>] }

BankCols ==
    <<"bank_name", "loan_product_name", "description", "eligibility",
      "interest_rate", "repayment_period", "age_criteria", "contact_info",
      "source">>

\* a record of the bank collector: it has no name column
BankRow ==
    [bank_name |-> <<"B", "O", "C">>,
     loan_product_name |-> <<"E", "d", "u", " ", "L", "o", "a", "n">>,
     description |-> <<"D">>, eligibility |-> <<"E", "\n", "\n", "F">>,
     interest_rate |-> <<"1", "2", "%", " ", "p", "a">>,
     repayment_period |-> <<"5", " ", "y", "r", "s">>,
     age_criteria |-> <<"1", "8", " ", "t", "o", " ", "6", "5">>,
     contact_info |-> <<"C">>, source |-> <<"S">>]

DaadCols ==
    <<"name", "source", "eligibility", "deadline", "contact", "program_type">>

\* a record of a scholarship collector with a column of its own
DaadRow ==
    [name |-> <<"A">>, source |-> <<"U">>, eligibility |-> <<"E">>,
     deadline |-> <<"b", "y", " ", "5", " ", "M", "a", "r", " ", "2", "0", "2", "5">>,
     contact |-> <<"C">>, program_type |-> <<"P">>]

\* the sequences over S of length at most n
SeqsUpTo(S, n) == UNION {[1..k -> S] : k \in 0..n}

\* the first file of the folder, when there is one: a generic file under a
\* loans name, a scholarship name or a name neither cleaner selects
GenericFiles ==
    {File(f, TRUE, GenericCols, rows) :
        f \in {F_loans, F_scholarships}, rows \in SeqsUpTo(GenericRows, MaxRows)}
    \cup {File(f, FALSE, <<>>, <<>>) : f \in {F_loans, F_scholarships}}
    \cup {File(F_notes, TRUE, GenericCols, <<>>)}

\* the second file of the folder, when there is one
SourceFiles ==
    { File(F_bank, TRUE, BankCols, <<BankRow>>),
      File(F_bank, FALSE, <<>>, <<>>),
      File(F_daad, TRUE, DaadCols, <<DaadRow>>),
      File(F_daad, FALSE, <<>>, <<>>) }

Folders ==
    {<<>>}
    \cup {<<g>> : g \in GenericFiles}
    \cup {<<f>> : f \in SourceFiles}
    \cup {<<g, f>> : g \in GenericFiles, f \in SourceFiles}

Init ==
    /\ domain \in {"loans", "scholarships"}
    /\ files \in Folders
    /\ pc = "start"
    /\ df = EmptyTable
    /\ float_cols = {}
    /\ original_count = 0
    /\ pre = EmptyTable
    /\ calls = <<>>
    /\ written = <<>>
    /\ now = 0
    /\ run = 1
    /\ outputs = <<>>
    /\ success = <<>>

Spec == Init /\ [][Next]_vars

-----------------------------------------------------------------------------
(* Runs of the cleaners over one data folder *)

\* the elements of a finite set in some order (os.listdir gives no order)
RECURSIVE SetToSeq(_)
SetToSeq(S) ==
    IF S = {} THEN <<>>
    ELSE LET x == CHOOSE y \in S : TRUE
         IN  <<x>> \o SetToSeq(S \ {x})

\* the file of the data folder that a cleaner wrote under the name n: a
\* table file parses, a report is no CSV file
OutputFile(n) ==
    IF EndsWith(n, T_csv)
    THEN File(n, TRUE, outputs[n].content.cols, outputs[n].content.rows)
    ELSE File(n, FALSE, <<>>, <<>>)

\* the files of the listing that no cleaner wrote
written_by_collectors(f) == f.fname \notin DOMAIN outputs

\* os.listdir('data') at the start of a run: the collectors' files and the
\* files the runs so far have written
listdir ==
    SelectSeq(files, written_by_collectors)
    \o [i \in 1..Cardinality(DOMAIN outputs) |->
           OutputFile(SetToSeq(DOMAIN outputs)[i])]

\* a cleaner is constructed and clean() is called again, after a run of
\* either cleaner has returned (run_cleaners.py runs one after the other)
NewRun ==
    /\ pc \in {"save_cleaned_data", "failed"}
    /\ run < MaxRuns
    /\ run' = run + 1
    /\ domain' \in {"loans", "scholarships"}
    /\ files' = listdir
    /\ pc' = "start"
    /\ df' = EmptyTable
    /\ float_cols' = {}
    /\ original_count' = 0
    /\ pre' = EmptyTable
    /\ calls' = <<>>
    /\ written' = <<>>
    /\ success' = Append(success, pc = "save_cleaned_data")
    /\ UNCHANGED <<now, outputs>>

NextRuns == Next \/ NewRun

\* data/all_scholarships_<stamp>.csv of the master scraper
F_all == <<"a", "l", "l", "_", "s", "c", "h", "o", "l", "a", "r", "s", "h", "i", "p", "s", ".", "c", "s", "v">>

\* MasterScraper.merge_and_save: the records of all collectors in one frame
\* (a cell is the record's string, a key the record lacks is missing), the
\* duplicates on (name, source) dropped, written as the merged CSV file
merge_and_save(all_data) ==
    LET frame(r) == [cols |-> r.cols,
                     rows |-> <<[c \in SeqToSet(r.cols) |-> Str(r.row[c])]>>]
        all == concat([i \in 1..Len(all_data) |-> frame(all_data[i])])
        merged == [all EXCEPT !.rows = drop_duplicates(all.rows, {"name", "source"})]
    IN  File(F_all, TRUE, to_csv(merged).cols, to_csv(merged).rows)

\* a record of a scholarship collector and a record of a loan collector,
\* with the keys the collector gives it
ScholarshipRecord ==
    [cols |-> <<"name", "description", "eligibility", "contact", "source">>,
     row  |-> [name |-> <<"A">>, description |-> <<"D">>, eligibility |-> <<"E">>,
               contact |-> <<"C">>, source |-> <<"S">>]]

LoanRecord ==
    [cols |-> <<"name", "description", "eligibility", "contact", "source",
                "loan_product_name", "funding_amount", "deadline">>,
     row  |-> [name |-> <<"L">>, description |-> <<"D">>, eligibility |-> <<"E">>,
               contact |-> <<"C">>, source |-> <<"M">>,
               loan_product_name |-> <<"P">>, funding_amount |-> <<"$", "5">>,
               deadline |-> <<"5", " ", "y", "r", "s">>]]

\* a scholarship file whose records carry no source, one of them without a
\* name either
UnsourcedCols == <<"name", "description", "eligibility", "contact">>

UnsourcedRows ==
    << [name |-> <<"A">>, description |-> <<"D">>, eligibility |-> <<"E">>,
        contact |-> <<"C">>],
       [name |-> <<" ">>, description |-> <<"D">>, eligibility |-> <<"E">>,
        contact |-> <<"C">>] >>

\* the file a collector writes for its record
CollectorFile(fname, r) == File(fname, TRUE, r.cols, <<r.row>>)

\* the records of a loans file one of which has a source and nothing else
SourceOnlyRows ==
    << [name |-> <<>>, source |-> <<"S">>, description |-> <<>>,
        funding_amount |-> <<>>],
       [name |-> <<"A">>, source |-> <<"S">>, description |-> <<"D">>,
        funding_amount |-> <<"$", "5">>] >>

\* the data folders the runs start from: what the collectors and the master
\* scraper leave, a scholarship file without a source column, and a loans
\* file with a record that has a source only
RunFolders ==
    { <<CollectorFile(F_loans, LoanRecord)>>,
      <<File(F_loans, TRUE, GenericCols, SourceOnlyRows)>>,
      <<CollectorFile(F_scholarships, ScholarshipRecord)>>,
      <<CollectorFile(F_scholarships, ScholarshipRecord),
        CollectorFile(F_loans, LoanRecord),
        merge_and_save(<<ScholarshipRecord, LoanRecord>>)>>,
      <<File(F_scholarships, TRUE, UnsourcedCols, UnsourcedRows)>> }

InitRuns ==
    /\ domain \in {"loans", "scholarships"}
    /\ files \in RunFolders
    /\ pc = "start"
    /\ df = EmptyTable
    /\ float_cols = {}
    /\ original_count = 0
    /\ pre = EmptyTable
    /\ calls = <<>>
    /\ written = <<>>
    /\ now = 0
    /\ run = 1
    /\ outputs = <<>>
    /\ success = <<>>

SpecRuns == InitRuns /\ [][NextRuns]_vars

-----------------------------------------------------------------------------
(* run_cleaners: the scholarship cleaner, then the loans cleaner *)

\* variant of the result of run_cleaners: one successful cleaner is enough
run_cleaners_result_either(scholarship_success, loans_success) ==
    scholarship_success \/ loans_success

\* return scholarship_success and loans_success
run_cleaners_result(scholarship_success, loans_success) ==
    scholarship_success /\ loans_success

\* scholarship_cleaner.clean() has returned: LoansDataCleaner() is constructed
\* and its clean() called, over the data folder as the first run left it
RunLoansCleaner ==
    /\ run = 1
    /\ domain = "scholarships"
    /\ NewRun
    /\ domain' = "loans"

\* loans_cleaner.clean() has returned: run_cleaners returns
Return ==
    /\ run = 2
    /\ domain = "loans"
    /\ pc \in {"save_cleaned_data", "failed"}
    /\ success' = Append(success, pc = "save_cleaned_data")
    /\ pc' = IF run_cleaners_result(success[1], pc = "save_cleaned_data")
             THEN "returned True" ELSE "returned False"
    /\ UNCHANGED <<domain, files, df, float_cols, original_count, pre, calls,
                   written, now, run, outputs>>

InitCleaners ==
    /\ InitRuns
    /\ domain = "scholarships"

NextCleaners == Next \/ RunLoansCleaner \/ Return

SpecCleaners == InitCleaners /\ [][NextCleaners]_vars

-----------------------------------------------------------------------------
(* The amount extractor applied to a text and to its own output *)

\* how the amount texts begin: the currency words and a descriptive keyword
AmountPrefixes == {<<>>, <<"R", "s">>, <<"r", "s", ".">>, <<"L", "K", "R">>, <<"U", "S", "D">>, <<"u", "p", " ", "t", "o">>}

\* the characters that follow: a currency sign, the characters of a number,
\* the percent sign and a blank
AmountChars == {"$", ",", ".", "5", "%", " "}

\* the cells of a funding_amount column at the amount stage: texts, the
\* sentinel and a missing value
\* amount texts of the collectors' records: a maximum in rupees, a dollar
\* amount before a rupee amount, a percentage before an LKR amount, a
\* descriptive text and a text no rule applies to
T_RsMaximum == <<"R", "s", ".", " ", "1", ",", "2", "0", "0", ",", "0", "0", "0", " ", "m", "a", "x", "i", "m", "u", "m">>

T_DollarThenRs == <<"$", "5", " ", "R", "s", " ", "6">>

T_PercentThenLKR == <<"5", "%", " ", "L", "K", "R", " ", "7">>

T_Varies == <<" ", "V", "a", "r", "i", "e", "s", " ">>

T_Free == <<" ", "F", "r", "e", "e", " ">>

AmountExamples == {T_RsMaximum, T_DollarThenRs, T_PercentThenLKR, T_Varies, T_Free}

AmountCells ==
    {Str(p \o t) : p \in AmountPrefixes, t \in SeqsUpTo(AmountChars, MaxLen)}
    \cup {Str(t) : t \in AmountExamples}
    \cup {NA, NaN}

\* self.df['funding_amount'] = self.df['funding_amount'].apply(extract_amount),
\* on the table as loaded and once more on the table it leaves
ApplyExtractAmount ==
    LET amount(c) == extract_amount(domain, c)
    IN  /\ pc \in {"text", "extracted"}
        /\ pc' = IF pc = "text" THEN "extracted" ELSE "extracted again"
        /\ pre' = df
        /\ df' = MapCol(df, "funding_amount", amount)
        /\ UNCHANGED <<domain, files, float_cols, original_count, calls, written,
                       now, run, outputs, success>>

InitAmount ==
    /\ domain \in {"loans", "scholarships"}
    /\ files = <<>>
    /\ pc = "text"
    /\ \E c \in AmountCells :
          df = [cols |-> <<"funding_amount">>, rows |-> <<[funding_amount |-> c]>>]
    /\ float_cols = {}
    /\ original_count = 1
    /\ pre = EmptyTable
    /\ calls = <<>>
    /\ written = <<>>
    /\ now = 0
    /\ run = 1
    /\ outputs = <<>>
    /\ success = <<>>

SpecAmount == InitAmount /\ [][ApplyExtractAmount]_vars

-----------------------------------------------------------------------------
(* The rate extractor applied to a text *)

\* rate texts of the collectors' records
T_PerAnnum == <<"1", "2", "%", " ", "p", "e", "r", " ", "a", "n", "n", "u", "m">>

T_FreeFirstYear == <<"I", "n", "t", "e", "r", "e", "s", "t", "-", "f", "r", "e", "e", " ", "f", "o", "r", " ", "f", "i", "r", "s", "t", " ", "y", "e", "a", "r">>

T_PercentOrFree == <<"5", "%", " ", "o", "r", " ", "i", "n", "t", "e", "r", "e", "s", "t", "-", "f", "r", "e", "e">>

T_CompetitiveRates == <<" ", "C", "o", "m", "p", "e", "t", "i", "t", "i", "v", "e", " ", "r", "a", "t", "e", "s", " ">>

\* the cells of an interest_rate column at the rate stage: a beginning
\* (nothing, a number, a keyword of the two keyword rules) followed by the
\* characters of a number, the percent sign and blanks; the texts above; the
\* sentinel and a missing value
RateCells ==
    LET prefixes == {<<>>, <<"0">>, <<"F", "r", "e", "e", " ">>, <<"z", "e", "r", "o">>, <<"M", "a", "r", "k", "e", "t", " ">>}
        chars == {"5", ".", "%", " "}
    IN  {Str(p \o t) : p \in prefixes, t \in SeqsUpTo(chars, MaxLen)}
        \cup {Str(T_PerAnnum), Str(T_FreeFirstYear), Str(T_PercentOrFree),
              Str(T_CompetitiveRates), NA, NaN}

\* self.df['interest_rate'] = self.df['interest_rate'].apply(extract_rate)
ApplyExtractRate ==
    /\ pc = "text"
    /\ pc' = "extracted"
    /\ pre' = df
    /\ df' = MapCol(df, "interest_rate", extract_rate)
    /\ UNCHANGED <<domain, files, float_cols, original_count, calls, written,
                   now, run, outputs, success>>

InitRate ==
    /\ domain = "loans"
    /\ files = <<>>
    /\ pc = "text"
    /\ \E c \in RateCells :
          df = [cols |-> <<"interest_rate">>, rows |-> <<[interest_rate |-> c]>>]
    /\ float_cols = {}
    /\ original_count = 1
    /\ pre = EmptyTable
    /\ calls = <<>>
    /\ written = <<>>
    /\ now = 0
    /\ run = 1
    /\ outputs = <<>>
    /\ success = <<>>

SpecRate == InitRate /\ [][ApplyExtractRate]_vars

-----------------------------------------------------------------------------
(* The eligibility cleaner applied to a text *)

\* the cells of an eligibility column at the eligibility stage: a beginning
\* of letters, blanks and newlines followed by a run of letters that ends
\* below, at and above the character budget; the sentinel and a missing value
EligibilityCells ==
    LET heads == SeqsUpTo({"x", " ", "\n"}, MaxLen)
        lengths == {0, EligibilityLimit - MaxLen, EligibilityLimit,
                    EligibilityLimit + 1}
    IN  {Str(h \o [i \in 1..n |-> "x"]) : h \in heads, n \in lengths}
        \cup {NA, NaN}

\* self.df['eligibility'] = self.df['eligibility'].apply(clean_eligibility_text)
ApplyCleanEligibility ==
    /\ pc = "text"
    /\ pc' = "cleaned"
    /\ pre' = df
    /\ df' = MapCol(df, "eligibility", clean_eligibility_text)
    /\ UNCHANGED <<domain, files, float_cols, original_count, calls, written,
                   now, run, outputs, success>>

InitEligibility ==
    /\ domain \in {"loans", "scholarships"}
    /\ files = <<>>
    /\ pc = "text"
    /\ \E c \in EligibilityCells :
          df = [cols |-> <<"eligibility">>, rows |-> <<[eligibility |-> c]>>]
    /\ float_cols = {}
    /\ original_count = 1
    /\ pre = EmptyTable
    /\ calls = <<>>
    /\ written = <<>>
    /\ now = 0
    /\ run = 1
    /\ outputs = <<>>
    /\ success = <<>>

SpecEligibility == InitEligibility /\ [][ApplyCleanEligibility]_vars

-----------------------------------------------------------------------------
(* The categorization stages applied to a scored table *)

T_MoheBank == <<"M", "O", "H", "E", " ", "B", "a", "n", "k">>

T_Months36 == <<"3", "6", " ", "m", "o", "n", "t", "h", "s">>

T_Years3 == <<"3", " ", "y", "e", "a", "r", "s">>

\* scored tables of two rows that agree in name and description and differ in
\* score, eligibility and repayment period: names and descriptions with the
\* keywords of no rule, of one rule and of two rules, periods in months and
\* in years
ScoredTables ==
    LET names == {<<"M", "e", "r", "i", "t", " ", "G", "r", "a", "n", "t">>, T_MoheBank, <<"B", "O", "C">>, <<"X">>}
        descriptions == {<<"D">>, <<"c", "o", "m", "m", "e", "r", "c", "i", "a", "l">>, <<"g", "o", "v", "e", "r", "n", "m", "e", "n", "t", " ", "n", "e", "e", "d">>}
        periods == {Str(T_Months36), Str(T_Years3), Str(<<"5", " ", "y", "e", "a", "r", "s">>), Str(<<"F", "l", "e", "x", "i", "b", "l", "e">>), NA}
        row(n, d, e, p, score) ==
            [name |-> Str(n), description |-> Str(d), eligibility |-> Str(e),
             repayment_period |-> p, data_quality_score |-> Num(score)]
    IN  {[cols |-> <<"name", "description", "eligibility", "repayment_period",
                     "data_quality_score">>,
          rows |-> <<row(n, d, <<"E">>, p1, 100 * 100),
                     row(n, d, <<"S", "r", "i", " ", "L", "a", "n", "k", "a">>, p2, 40 * 100)>>] :
            n \in names, d \in descriptions, p1 \in periods, p2 \in periods}

\* the run is about to categorize: add_data_quality_score returned last
InitCategorize ==
    /\ domain \in {"loans", "scholarships"}
    /\ files = <<>>
    /\ pc = "add_data_quality_score"
    /\ df \in ScoredTables
    /\ float_cols = {}
    /\ original_count = 2
    /\ pre = EmptyTable
    /\ calls = <<>>
    /\ written = <<>>
    /\ now = 0
    /\ run = 1
    /\ outputs = <<>>
    /\ success = <<>>

SpecCategorize == InitCategorize /\ [][AddType \/ AddCategory]_vars

-----------------------------------------------------------------------------
(* Properties *)

\* clean() has returned True: the canonical table has been written
Persisted == "canonical" \in DOMAIN written

\* the final table of the run
Final == written["canonical"]

\* the files load_data reads into the table
LoadsFile(f) == Selected(domain, f.fname) /\ f.ok

LoadedFileIndexes == {i \in 1..Len(files) : LoadsFile(files[i])}

\* a cell that is the sentinel or a non-empty string (scores and category
\* labels are never empty)
IsFilled(c) == c = NA \/ (IsStr(c) /\ TextOf(c) # <<>>) \/ c[1] \in {"num", "cat"}

\* C1: in the table a cleaner writes, every cell of every row is the
\* sentinel "N/A" or a non-empty string, never a missing value and never
\* the empty string.
C1_EveryCellSentinelOrText ==
    Persisted =>
        \A i \in 1..Len(Final.rows) : \A c \in ColSet(Final) :
            IsFilled(Final.rows[i][c])

\* the alias columns of the name, in the order they are consulted
NameAliases == <<"bank_name", "loan_product_name">>

\* the first alias of row r whose value is present, the sentinel when
\* there is none
FirstAlias(r) ==
    IF "bank_name" \in DOMAIN r /\ r["bank_name"] # NA /\ ~IsNaN(r["bank_name"])
    THEN r["bank_name"]
    ELSE IF /\ "loan_product_name" \in DOMAIN r
            /\ r["loan_product_name"] # NA
            /\ ~IsNaN(r["loan_product_name"])
    THEN r["loan_product_name"]
    ELSE NA

\* the loaded table of the loans cleaner has an alias column and no name
AliasOnly(t) ==
    /\ ~HasCol(t, "name")
    /\ \E i \in 1..Len(NameAliases) : HasCol(t, NameAliases[i])

\* C2: in the loans cleaner, when the loaded table has no name column but
\* has an alias column, after standardize_columns every row's name is the
\* first alias (bank_name, then loan_product_name) whose value is not "N/A".
C2_NameTakenFromAlias ==
    (domain = "loans" /\ pc = "standardize_columns" /\ AliasOnly(pre)) =>
        \A i \in 1..Len(df.rows) : df.rows[i]["name"] = FirstAlias(pre.rows[i])

\* a name after whitespace normalization (trim, runs of whitespace collapsed)
NormalizedName(c) == IF IsStr(c) THEN Str(CollapseSpaces(strip(TextOf(c)))) ELSE c

\* C3: in the final table of either cleaner no two rows have names that
\* are equal after whitespace normalization.
C3_NoTwoRowsSameOffer ==
    Persisted =>
        \A i, j \in 1..Len(Final.rows) :
            i < j => NormalizedName(Final.rows[i]["name"])
                        # NormalizedName(Final.rows[j]["name"])

\* the positions of the rows that are the first of their name in rows
FirstOfName(rows) ==
    {i \in 1..Len(rows) : \A j \in 1..(i - 1) : rows[j]["name"] # rows[i]["name"]}

\* how many positions of S are at or before i
Rank(S, i) == Cardinality({j \in S : j <= i})

\* out is the subsequence of rows at the positions S, in the order of rows
IsSubsequenceAt(out, rows, S) ==
    /\ Len(out) = Cardinality(S)
    /\ \A i \in S : out[Rank(S, i)] = rows[i]

\* C4: remove_duplicates returns the subsequence of its input, in input
\* order, that holds for each distinct name (a missing name included) its
\* first row and nothing else: the (name, source) pass followed by the
\* (name) pass is one keep-first pass on name.
C4_DedupKeepsFirstOfEachName ==
    pc = "remove_duplicates" =>
        /\ df.cols = pre.cols
        /\ IsSubsequenceAt(df.rows, pre.rows, FirstOfName(pre.rows))

\* remove_duplicates has removed the second row of a name that came from
\* another source, and rows of other names are left
C4_Witness ==
    /\ pc = "remove_duplicates"
    /\ Len(df.rows) >= 2
    /\ \E i, j \in 1..Len(pre.rows) :
          /\ i < j
          /\ pre.rows[i]["name"] = pre.rows[j]["name"]
          /\ pre.rows[i]["source"] # pre.rows[j]["source"]

\* C5: remove_duplicates applied to its own output changes nothing.
C5_DedupIdempotent ==
    pc = "remove_duplicates" => remove_duplicates(domain, df) = df

\* remove_duplicates has removed rows and is applied again to what is left
C5_Witness ==
    /\ pc = "remove_duplicates"
    /\ Len(df.rows) < Len(pre.rows)
    /\ Len(df.rows) >= 1

\* the raw texts that clean_text_fields turns into the sentinel
ReadsAsNullLike(raw) ==
    ReadCell(raw) # NaN /\ CleanTextCell(ReadCell(raw)) = NA

\* C6: no row of the final table of either cleaner has the name "N/A".
C6_NoSentinelNameInFinal ==
    Persisted => \A i \in 1..Len(Final.rows) : Final.rows[i]["name"] # NA

\* a table was persisted by a run that loaded a row with a null-like name
C6_Witness ==
    /\ Persisted
    /\ Len(Final.rows) >= 1
    /\ \E f \in LoadedFileIndexes : \E i \in 1..Len(files[f].rows) :
          /\ "name" \in DOMAIN files[f].rows[i]
          /\ ReadsAsNullLike(files[f].rows[i]["name"])

\* the number of key fields of row r whose value is not the sentinel
NotSentinelCount(dom, r) ==
    Cardinality({i \in 1..Len(key_fields(dom)) : r[key_fields(dom)[i]] # NA})

RECURSIVE RowsLoaded(_)
RowsLoaded(S) ==
    IF S = {} THEN 0
    ELSE LET i == CHOOSE x \in S : TRUE
         IN  Len(files[i].rows) + RowsLoaded(S \ {i})

\* C8: the table never has more rows than were loaded, and the report's
\* Removed Records and Removal Rate (to the 2 decimals it prints) are both
\* computed from the rows loaded and the rows of the table that is persisted.
C8_RemovalMatchesCounts ==
    /\ Len(df.rows) <= original_count
    /\ pc \notin {"start", "failed"} => original_count = RowsLoaded(LoadedFileIndexes)
    /\ "report" \in DOMAIN written =>
          LET r == written["report"].statistics
          IN  /\ r.original = RowsLoaded(LoadedFileIndexes)
              /\ r.cleaned = Len(df.rows)
              /\ r.removed = r.original - r.cleaned
              /\ r.rate = RoundHalfEven((r.original - r.cleaned) * 100 * 100, r.original)
              /\ Persisted => r.cleaned = Len(Final.rows)

\* a run has persisted a table that lost some, not all, of the loaded rows
C8_Witness ==
    /\ Persisted
    /\ Len(Final.rows) >= 1
    /\ Len(Final.rows) < written["report"].statistics.original

\* the stages of a run in the order of the state machine
Stages ==
    <<"load", "reconcile", "dedup", "extract", "filter", "score",
      "categorize", "report", "persist">>

\* the stage a method of clean() belongs to
StageOf(m) ==
    CASE m = "load_data" -> 1
      [] m = "standardize_columns" -> 2
      [] m = "remove_duplicates" -> 3
      [] m \in {"clean_text_fields", "extract_loan_amounts",
                "extract_funding_amount", "extract_repayment_period",
                "extract_interest_rate", "extract_age_range",
                "extract_deadline", "clean_eligibility"} -> 4
      [] m = "remove_empty_rows" -> 5
      [] m = "add_data_quality_score" -> 6
      [] m \in {"add_loan_type", "add_scholarship_type",
                "add_loan_duration_category", "add_eligibility_region"} -> 7
      [] m \in {"reorder_columns", "generate_cleaning_report"} -> 8
      [] m = "save_cleaned_data" -> 9

\* C9: a run goes through load, reconcile, dedup, extract, filter, score,
\* categorize, report, persist in that order: the first call is the load,
\* every later call belongs to the stage of the call before it or to the
\* next stage, and no method is called twice.
C9_StagesInOrder ==
    /\ calls # <<>> => StageOf(calls[1]) = 1
    /\ \A i \in 2..Len(calls) :
          StageOf(calls[i]) \in {StageOf(calls[i - 1]), StageOf(calls[i - 1]) + 1}
    /\ \A i, j \in 1..Len(calls) : i < j => calls[i] # calls[j]

\* a run has gone through all nine stages
C9_Witness ==
    /\ pc = "save_cleaned_data"
    /\ {StageOf(calls[i]) : i \in 1..Len(calls)} = 1..Len(Stages)

\* C10: when no file matches the filename filter, or every matching file
\* fails to parse, clean() returns False at the load, no later stage runs
\* and the run writes no report, canonical table or snapshot.
C10_NoInputNoOutput ==
    LoadedFileIndexes = {} =>
        /\ pc \in {"start", "failed"}
        /\ calls \in {<<>>, <<"load_data">>}
        /\ df = EmptyTable
        /\ written = <<>>

\* the load has failed on a folder whose only matching file does not parse
C10_Witness ==
    /\ pc = "failed"
    /\ LoadedFileIndexes = {}
    /\ \E i \in 1..Len(files) : Selected(domain, files[i].fname) /\ ~files[i].ok

\* the rows of the loaded files that come before file i
LoadedBefore(i) == RowsLoaded({k \in LoadedFileIndexes : k < i})

\* the last method clean() called
LastCall == calls[Len(calls)]

\* clean() returned False because writing an output file raised
OutputWriteFailed ==
    /\ pc = "failed"
    /\ LastCall \in {"generate_cleaning_report", "save_cleaned_data"}
    /\ ~report_raises(original_count)

\* C11: loading is isolated per file: a matching file that does not parse is
\* skipped, the rows of every other matching file are loaded in order, and
\* the run fails on its input only when no file was loaded, also when the
\* loaded files have no rows.
C11_LoadIsolatedPerFile ==
    /\ pc = "load_data" =>
          /\ Len(df.rows) = RowsLoaded(LoadedFileIndexes)
          /\ \A i \in LoadedFileIndexes : \A j \in 1..Len(files[i].rows) :
                \A c \in SeqToSet(files[i].cols) :
                    df.rows[LoadedBefore(i) + j][c] = ReadCell(files[i].rows[j][c])
    /\ (pc = "failed" /\ ~OutputWriteFailed) => LoadedFileIndexes = {}

\* C12: whenever clean() returns False the run has written none of its
\* report file, canonical table file and snapshot file, wherever it failed.
C12_FailedRunWritesNothing ==
    pc = "failed" =>
        /\ written = <<>>
        /\ \A n \in DOMAIN outputs : outputs[n].writers[Len(outputs[n].writers)] # run

\* the loaded files that no cleaner wrote
LoadedSourceIndexes == {i \in LoadedFileIndexes : files[i].fname \notin DOMAIN outputs}

\* C13: a run is built only from the collectors' files: no canonical table
\* and no snapshot written by an earlier run is loaded, and the original
\* record count counts the rows of the source files only.
C13_OutputsNeverLoaded ==
    pc \notin {"start", "failed"} =>
        /\ \A i \in LoadedFileIndexes : files[i].fname \notin DOMAIN outputs
        /\ original_count = RowsLoaded(LoadedSourceIndexes)

\* the snapshot files of the data folder
IsSnapshot(n) ==
    \E dom \in {"loans", "scholarships"} : \E ts \in 0..MaxClock :
        n = timestamped_file(dom, ts)

\* C14: a successful run has written the canonical table file and one
\* snapshot file that hold the same table, and no snapshot file in the data
\* folder was written by more than one run.
C14_SnapshotsNeverOverwritten ==
    /\ pc = "save_cleaned_data" =>
          /\ output_file(domain) \in DOMAIN outputs
          /\ timestamped_file(domain, now) \in DOMAIN outputs
          /\ outputs[output_file(domain)].content = to_csv(df)
          /\ outputs[timestamped_file(domain, now)].content = to_csv(df)
    /\ \A n \in DOMAIN outputs : IsSnapshot(n) => Len(outputs[n].writers) = 1

\* row r of the table is the record rec of a collector, as read from a file
IsRecordOf(r, rec) ==
    \A c \in SeqToSet(rec.cols) : c \in DOMAIN r /\ r[c] = ReadCell(rec.row[c])

\* the table holds the record rec
Holds(t, rec) == \E i \in 1..Len(t.rows) : IsRecordOf(t.rows[i], rec)

\* C15: the two cleaners are independent: no file of the data folder is
\* selected by both filename filters, the loaded scholarship table holds
\* no record of a loan collector and the loaded loans table no record of a
\* scholarship collector.
C15_DomainsIndependent ==
    /\ \A i \in 1..Len(files) :
          ~(IsLoanFile(files[i].fname) /\ IsScholarshipFile(files[i].fname))
    /\ (pc = "load_data" /\ domain = "scholarships") => ~Holds(df, LoanRecord)
    /\ (pc = "load_data" /\ domain = "loans") => ~Holds(df, ScholarshipRecord)

\* the columns of the loaded files
RECURSIVE LoadedColumns(_)
LoadedColumns(S) ==
    IF S = {} THEN {}
    ELSE LET i == CHOOSE x \in S : TRUE
         IN  SeqToSet(files[i].cols) \cup LoadedColumns(S \ {i})

\* the expected field list of the cleaner dom
ExpectedColumns(dom) ==
    IF dom = "loans" THEN SeqToSet(all_expected) ELSE SeqToSet(common_columns)

\* C16: after load_data and standardize_columns the rows of the table are
\* the rows of the loaded files, in file order then row order, and the
\* columns are exactly the columns of all loaded files together with the
\* expected fields of the domain: no column of a source file is dropped
\* (the name is left out of the comparison of the cells: an alias may fill it).
C16_ReconciledTableIsUnion ==
    pc = "standardize_columns" =>
        /\ Len(df.rows) = RowsLoaded(LoadedFileIndexes)
        /\ \A i \in LoadedFileIndexes : \A j \in 1..Len(files[i].rows) :
              \A c \in (SeqToSet(files[i].cols) \cap ColSet(df)) \ {"name"} :
                  df.rows[LoadedBefore(i) + j][c] = ReadCell(files[i].rows[j][c])
        /\ ColSet(df) = LoadedColumns(LoadedFileIndexes) \cup ExpectedColumns(domain)

\* the columns an extraction stage rewrites
TargetColumns(dom, m) ==
    CASE m \in {"extract_loan_amounts", "extract_funding_amount"} ->
             SeqToSet(amount_columns(dom))
      [] m = "extract_repayment_period" -> {"repayment_period"}
      [] m = "extract_interest_rate" -> {"interest_rate"}
      [] m = "extract_age_range" -> {"age_criteria"}
      [] m = "extract_deadline" -> {"deadline"}
      [] m = "clean_eligibility" -> {"eligibility"}
      [] OTHER -> {}

\* a cell that is the sentinel or a missing value
SentinelOrMissing(c) == c = NA \/ IsNaN(c)

\* C17: every extractor returns "N/A" for the input "N/A" and for a missing
\* input, so an extraction stage leaves "N/A" in every cell of its target
\* columns that was the sentinel or missing.
C17_ExtractorsKeepSentinel ==
    /\ \A c \in {NA, NaN} :
          /\ extract_amount("loans", c) = NA
          /\ extract_amount("scholarships", c) = NA
          /\ extract_period(c) = NA
          /\ extract_rate(c) = NA
          /\ extract_age(c) = NA
          /\ extract_deadline_date(c) = NA
          /\ clean_eligibility_text(c) = NA
    /\ \A col \in TargetColumns(domain, pc) \cap ColSet(pre) :
          /\ Len(df.rows) = Len(pre.rows)
          /\ \A i \in 1..Len(pre.rows) :
                SentinelOrMissing(pre.rows[i][col]) => df.rows[i][col] = NA

\* the amount stage of the loans cleaner has met a missing funding amount and
\* the sentinel in a column that standardize_columns added
C17_Witness ==
    /\ pc = "extract_loan_amounts"
    /\ \E i \in 1..Len(pre.rows) :
          /\ IsNaN(pre.rows[i]["funding_amount"])
          /\ pre.rows[i]["maximum_loan_amount"] = NA
          /\ df.rows[i]["funding_amount"] = NA
          /\ df.rows[i]["maximum_loan_amount"] = NA

\* the amount cell of the one-row table of the amount specification
AmountCell(t) == t.rows[1]["funding_amount"]

\* C18: amount extraction is idempotent in both cleaners: the extractor
\* applied to its own output returns that output, for currency matches,
\* percentage texts, keyword texts, other texts, the sentinel and a missing
\* value.
C18_AmountIdempotent ==
    /\ pc = "text" =>
          extract_amount(domain, extract_amount(domain, AmountCell(df)))
              = extract_amount(domain, AmountCell(df))
    /\ pc = "extracted again" => df = pre

\* a currency amount with a comma was standardized and fed to the extractor
\* again
C18_Witness ==
    /\ pc = "extracted again"
    /\ AmountCell(df) = Str(T_Rs \o <<"5", "5">>)

\* C19: report generation is deterministic: for the same final table and the
\* same original record count, generate_cleaning_report produces the same
\* report text whenever it is invoked, so the text it has written is the text
\* it produces at every reading of the clock.
C19_ReportDeterministic ==
    (pc = "generate_cleaning_report" /\ "report" \in DOMAIN written) =>
        \A ts \in 0..MaxClock :
            report_text(ts, original_count, df) = written["report"]

\* the methods clean() calls after remove_duplicates and before
\* add_data_quality_score
BetweenDedupAndScoring ==
    {m \in {pipeline(domain)[i] : i \in 1..Len(pipeline(domain))} :
        /\ Position(domain, m) > Position(domain, "remove_duplicates")
        /\ Position(domain, m) < Position(domain, "add_data_quality_score")}

\* the rows of a table whose canonical name is not the sentinel
NamedRows(t) ==
    LET named(r) == r["name"] # NA
    IN  SelectSeq(t.rows, named)

\* C20: between deduplication and scoring, a row is removed from the table if
\* and only if its canonical name is the sentinel "N/A", in both pipelines:
\* remove_empty_rows leaves exactly the rows whose name is not the sentinel,
\* whatever their other fields hold, and no other method in between changes
\* the number of rows.
C20_OnlyNamelessRowsRemoved ==
    pc \in BetweenDedupAndScoring =>
        IF pc = "remove_empty_rows"
        THEN df.rows = NamedRows(pre)
        ELSE Len(df.rows) = Len(pre.rows)

\* C21: the amount extractor applies its rules in fixed priority and the
\* first applicable rule decides: a currency-prefixed number (patterns tried
\* in the order Rs/Rs., LKR, $, USD) gives "Rs. " and the matched number
\* without its commas, whatever '%' or keyword the text also holds; otherwise
\* a text with '%' is returned trimmed; otherwise a text with a descriptive
\* keyword is returned trimmed. "Rs. 1,200,000 maximum" gives "Rs. 1200000".
C21_AmountRulePriority ==
    (pc = "extracted" /\ IsStr(AmountCell(pre)) /\ AmountCell(pre) # NA) =>
        LET t == TextOf(AmountCell(pre))
            r == AmountCell(df)
            rs(i)  == AmountAt(t, i, <<"r", "s">>, TRUE, TRUE)
            lkr(i) == AmountAt(t, i, <<"l", "k", "r">>, FALSE, TRUE)
            usd(i) == AmountAt(t, i, <<"$">>, FALSE, FALSE)
            us(i)  == AmountAt(t, i, <<"u", "s", "d">>, FALSE, TRUE)
            number(m) == Str(<<"R", "s", ".", " ">> \o RemoveCommas(m.g))
            currency == \/ Search(t, rs).ok \/ Search(t, lkr).ok
                        \/ Search(t, usd).ok \/ Search(t, us).ok
        IN  /\ Search(t, rs).ok => r = number(Search(t, rs))
            /\ (~Search(t, rs).ok /\ Search(t, lkr).ok) =>
                  r = number(Search(t, lkr))
            /\ (~Search(t, rs).ok /\ ~Search(t, lkr).ok /\ Search(t, usd).ok) =>
                  r = number(Search(t, usd))
            /\ (~Search(t, rs).ok /\ ~Search(t, lkr).ok /\ ~Search(t, usd).ok
                  /\ Search(t, us).ok) => r = number(Search(t, us))
            /\ (~currency /\ Contains(t, <<"%">>)) => r = Str(strip(t))
            /\ (~currency /\ ~Contains(t, <<"%">>)
                  /\ AnyWordIn(t, AmountWords(domain))) => r = Str(strip(t))
            /\ t = T_RsMaximum =>
                  r = Str(<<"R", "s", ".", " ", "1", "2", "0", "0", "0", "0", "0">>)
            /\ t = T_DollarThenRs => r = Str(<<"R", "s", ".", " ", "6">>)
            /\ t = T_PercentThenLKR => r = Str(<<"R", "s", ".", " ", "7">>)

\* the rupee maximum of the example was standardized although the text holds
\* the keyword maximum
C21_Witness ==
    /\ pc = "extracted"
    /\ AmountCell(pre) = Str(T_RsMaximum)
    /\ AmountCell(df) = Str(<<"R", "s", ".", " ", "1", "2", "0", "0", "0", "0", "0">>)

\* C22: when no pattern and no keyword fallback applies to a non-sentinel
\* input, the result of an extractor is the input text with surrounding
\* whitespace trimmed, or "N/A" when the trimmed text is empty; an extractor
\* never returns a text with leading or trailing whitespace or a
\* whitespace-only text. Stated for the amount extractor of both cleaners.
C22_FallbackTrimmed ==
    (pc = "extracted" /\ IsStr(AmountCell(pre)) /\ AmountCell(pre) # NA) =>
        LET t == TextOf(AmountCell(pre))
            r == TextOf(AmountCell(df))
        IN  /\ r # <<>>
            /\ strip(r) = r
            /\ (/\ ~CurrencyMatch(t).ok
                /\ ~Contains(t, <<"%">>)
                /\ ~AnyWordIn(t, AmountWords(domain))) =>
                  r = IF strip(t) = <<>> THEN T_NA ELSE strip(t)

\* the interest_rate cell of the one-row table of the rate specification
RateCell(t) == t.rows[1]["interest_rate"]

C24_PeriodFromDeadline ==
    (/\ domain = "loans"
     /\ Persisted
     /\ "repayment_period" \notin LoadedColumns(LoadedFileIndexes)
     /\ "deadline" \in LoadedColumns(LoadedFileIndexes)) =>
        \A i \in 1..Len(Final.rows) :
            Final.rows[i]["repayment_period"] = extract_period(Final.rows[i]["deadline"])

\* the eligibility cell of the one-row table of the eligibility specification
EligibilityCell(t) == t.rows[1]["eligibility"]

\* C25: the eligibility cleaner caps its result at the 500-character budget:
\* the cleaned text, ellipsis marker included, is at most 500 characters
\* long; a text longer than 500 characters is cut and ends with the ellipsis
\* marker; a text of at most 500 characters is never cut.
C25_EligibilityWithinBudget ==
    (pc = "cleaned" /\ IsStr(EligibilityCell(pre)) /\ EligibilityCell(pre) # NA) =>
        LET t == CollapseNewlines(CollapseBlankLines(strip(TextOf(EligibilityCell(pre)))))
            r == TextOf(EligibilityCell(df))
        IN  /\ Len(r) <= 500
            /\ Len(t) > 500 =>
                  /\ Len(r) >= 3
                  /\ SubSeq(r, Len(r) - 2, Len(r)) = <<".", ".", ".">>
            /\ Len(t) <= 500 => r = IF t = <<>> THEN T_NA ELSE t

\* the column the type stage adds
TypeColumn == IF domain = "loans" THEN "loan_type" ELSE "scholarship_type"

\* C26: categorization is first-match-wins over a fixed ordered rule list
\* applied to the text fields of the row only: for loans, a row whose
\* name+description holds a government keyword gets "Government Loan" even if
\* it also holds a bank keyword, a row with a bank keyword and no government
\* keyword gets "Bank Loan", a row matching no rule gets "Other"; two rows
\* with equal name and description get the same category whatever their
\* data_quality_score or other fields.
C26_CategoryFirstMatchOnText ==
    pc \in {"add_loan_type", "add_scholarship_type"} =>
        /\ \A i \in 1..Len(df.rows) : \A j \in 1..Len(df.rows) :
              (/\ pre.rows[i]["name"] = pre.rows[j]["name"]
               /\ pre.rows[i]["description"] = pre.rows[j]["description"]) =>
                  df.rows[i][TypeColumn] = df.rows[j][TypeColumn]
        /\ domain = "loans" =>
              \A i \in 1..Len(df.rows) :
                  LET text == lower(TextOf(pre.rows[i]["name"]) \o <<" ">>
                                    \o TextOf(pre.rows[i]["description"]))
                      has(w) == Contains(text, w)
                      government == has(<<"g", "o", "v", "e", "r", "n", "m", "e", "n", "t">>)
                                    \/ has(<<"m", "o", "h", "e">>)
                      bank == \/ has(<<"b", "a", "n", "k">>) \/ has(<<"b", "o", "c">>)
                              \/ has(<<"c", "o", "m", "m", "e", "r", "c", "i", "a", "l">>)
                              \/ has(<<"p", "e", "o", "p", "l", "e", "s">>)
                              \/ has(<<"h", "n", "b">>) \/ has(<<"n", "s", "b">>)
                              \/ has(<<"p", "a", "b", "c">>)
                      other == \/ has(<<"b", "u", "d", "d", "h", "i">>)
                               \/ has(<<"d", "a", "i">>)
                               \/ has(<<"a", "w", "a", "r", "d", "i", "n", "g">>)
                  IN  /\ government => df.rows[i]["loan_type"] = Cat("Government Loan")
                      /\ (~government /\ bank) => df.rows[i]["loan_type"] = Cat("Bank Loan")
                      /\ (~government /\ ~bank /\ ~other) =>
                            df.rows[i]["loan_type"] = Cat("Other")

\* a loan named after the ministry and a bank was categorized as a government
\* loan in both rows, whose scores differ
C26_Witness ==
    /\ pc = "add_loan_type"
    /\ df.rows[1]["name"] = Str(T_MoheBank)
    /\ df.rows[1]["loan_type"] = Cat("Government Loan")
    /\ df.rows[2]["loan_type"] = Cat("Government Loan")
    /\ df.rows[1]["data_quality_score"] # df.rows[2]["data_quality_score"]

\* the position of x in the sequence s
IndexIn(s, x) == CHOOSE k \in 1..Len(s) : s[k] = x

\* C27: reorder_columns changes only the order of the columns: afterwards the
\* fixed canonical columns of the domain come first in the fixed order,
\* followed by every other column in the relative order it had before; no
\* column is added or dropped, and no row or cell value changes.
C27_ReorderOnlyReorders ==
    pc = "reorder_columns" =>
        LET order == column_order(domain)
            canon == SeqToSet(order)
            n == Cardinality(canon \cap ColSet(pre))
        IN  /\ Len(df.cols) = Len(pre.cols)
            /\ ColSet(df) = ColSet(pre)
            /\ df.rows = pre.rows
            /\ \A i \in 1..Len(df.cols) : (i <= n) <=> (df.cols[i] \in canon)
            /\ \A i \in 1..n : \A j \in (i + 1)..n :
                  IndexIn(order, df.cols[i]) < IndexIn(order, df.cols[j])
            /\ \A i \in (n + 1)..Len(df.cols) : \A j \in (i + 1)..Len(df.cols) :
                  IndexIn(pre.cols, df.cols[i]) < IndexIn(pre.cols, df.cols[j])

\* a table with rows and with columns outside the canonical order was
\* reordered
C27_Witness ==
    /\ pc = "reorder_columns"
    /\ df.cols # pre.cols
    /\ df.rows # <<>>
    /\ \E i \in 1..Len(df.cols) : \E j \in 1..Len(df.cols) :
          /\ i # j
          /\ df.cols[i] \notin SeqToSet(column_order(domain))
          /\ df.cols[j] \notin SeqToSet(column_order(domain))

\* C28: in the final table of either cleaner the data_quality_score of every
\* row is at least 100/n (20 for loans, 16.67 for scholarships): a row that
\* survives the empty-row filter has a name that counts as a present key
\* field, so no written row scores 0.
C28_ScoreAtLeastOneField ==
    Persisted =>
        \A i \in 1..Len(Final.rows) :
            Final.rows[i]["data_quality_score"][2]
                >= RoundHalfEven(100 * 100, Len(key_fields(domain)))

\* the length in months that a standardized repayment period denotes: the
\* first number, taken as months or as years after the unit of the text
\* (0 when the text has no number or no unit)
PeriodMonths(c) ==
    LET t == lower(TextOf(c))
        number(i) == NumberAt(t, i)
        n == ToInt(Search(t, number).g)
    IN  IF ~Search(t, number).ok THEN 0
        ELSE IF Contains(t, <<"m", "o", "n", "t", "h">>) THEN n
        ELSE IF Contains(t, <<"y", "e", "a", "r">>) THEN 12 * n
        ELSE 0

\* C29: loan_duration_category reflects the length of the repayment period
\* in years: at most 3 years gives Short-term, 4 to 7 years Medium-term, more
\* than 7 years Long-term, and Unknown when the period is "N/A" or has no
\* number; two repayment periods that denote the same duration in different
\* units ("36 months" and "3 years") get the same category.
C29_DurationCategoryByLength ==
    (domain = "loans" /\ pc = "add_loan_duration_category") =>
        /\ \A i \in 1..Len(df.rows) :
              LET months == PeriodMonths(pre.rows[i]["repayment_period"])
                  category == df.rows[i]["loan_duration_category"]
              IN  /\ months = 0 => category = Cat("Unknown")
                  /\ (0 < months /\ months <= 3 * 12) =>
                        category = Cat("Short-term (<=3 years)")
                  /\ (3 * 12 < months /\ months <= 7 * 12) =>
                        category = Cat("Medium-term (4-7 years)")
                  /\ 7 * 12 < months => category = Cat("Long-term (>7 years)")
        /\ \A i \in 1..Len(df.rows) : \A j \in 1..Len(df.rows) :
              PeriodMonths(pre.rows[i]["repayment_period"])
                    = PeriodMonths(pre.rows[j]["repayment_period"]) =>
                  df.rows[i]["loan_duration_category"]
                    = df.rows[j]["loan_duration_category"]

\* the output files of the cleaner dom: canonical table, snapshots, reports
IsOutputOf(dom, n) ==
    \/ n = output_file(dom)
    \/ \E ts \in 0..MaxClock : n = timestamped_file(dom, ts) \/ n = report_file(dom, ts)

\* run_cleaners has returned
Returned == pc \in {"returned True", "returned False"}

\* C30: run_cleaners runs the scholarship cleaner and then the loans cleaner,
\* once each; the loans cleaner runs whether or not the scholarship cleaner
\* succeeded; the function returns True if and only if both cleaners returned
\* True; a cleaner, failing or not, writes its own output files only, so a
\* failure of one leaves the files of the other untouched.
C30_RunCleanersRunsBoth ==
    /\ run = 1 => (domain = "scholarships" /\ success = <<>>)
    /\ run = 2 => (domain = "loans" /\ Len(success) >= 1)
    /\ Returned =>
          /\ run = 2
          /\ Len(success) = 2
          /\ calls # <<>>
          /\ calls[1] = "load_data"
          /\ (pc = "returned True") <=> (success[1] /\ success[2])
    /\ \A n \in DOMAIN outputs :
          /\ IsOutputOf("scholarships", n) # IsOutputOf("loans", n)
          /\ \A k \in 1..Len(outputs[n].writers) :
                outputs[n].writers[k] = IF IsOutputOf("scholarships", n) THEN 1 ELSE 2

\* the scholarship cleaner failed, the loans cleaner ran all the same and
\* wrote its table, and run_cleaners returned False
C30_Witness ==
    /\ pc = "returned False"
    /\ success = <<FALSE, TRUE>>
    /\ output_file("loans") \in DOMAIN outputs
    /\ output_file("scholarships") \notin DOMAIN outputs

====
